---- MODULE Spec2Model ----
(***************************************************************************)
(* PE Import Analyzer (src/PE-Import-Analyzer.py): one run of main() as a  *)
(* state machine, with extract_and_sort_imports, the dangerous-function    *)
(* detection, the three prompts, the two renderers and the file write.     *)
(*                                                                         *)
(* A Python str is a tuple of one-character strings, so that str.lower,    *)
(* the code-point order used by sorted(..., key=str.lower) and the         *)
(* f-string formatting of an ordinal are computed instead of assumed.      *)
(* Explanations are only compared for equality and are TLA+ strings.       *)
(***************************************************************************)
EXTENDS Integers, Sequences, FiniteSets, TLC

\* ------------------------------------------------------------------ strings

Digits == <<"0", "1", "2", "3", "4", "5", "6", "7", "8", "9">>

UpperLetters ==
  <<"A", "B", "C", "D", "E", "F", "G", "H", "I", "J", "K", "L", "M",
    "N", "O", "P", "Q", "R", "S", "T", "U", "V", "W", "X", "Y", "Z">>

LowerLetters ==
  <<"a", "b", "c", "d", "e", "f", "g", "h", "i", "j", "k", "l", "m",
    "n", "o", "p", "q", "r", "s", "t", "u", "v", "w", "x", "y", "z">>

Range(s) == {s[i] : i \in DOMAIN s}

IndexOf(s, c) == CHOOSE i \in DOMAIN s : s[i] = c

\* The other characters of the model's strings, each with its code point.
Punctuation ==
  <<<<"\t", 9>>, <<" ", 32>>, <<"&", 38>>, <<".", 46>>, <<"/", 47>>, <<"<", 60>>,
    <<">", 62>>, <<"_", 95>>>>

Chars == Range(Digits) \cup Range(UpperLetters) \cup Range(LowerLetters)
           \cup {Punctuation[i][1] : i \in DOMAIN Punctuation}

\* ord(c): the code point of a character (ASCII).
Ord ==
  [c \in Chars |->
     IF c \in Range(Digits) THEN 47 + IndexOf(Digits, c)
     ELSE IF c \in Range(UpperLetters) THEN 64 + IndexOf(UpperLetters, c)
     ELSE IF c \in Range(LowerLetters) THEN 96 + IndexOf(LowerLetters, c)
     ELSE Punctuation[CHOOSE i \in DOMAIN Punctuation : Punctuation[i][1] = c][2]]

\* str.lower on one character: only the cased ASCII letters change.
LowerChar ==
  [c \in Chars |->
     IF c \in Range(UpperLetters) THEN LowerLetters[IndexOf(UpperLetters, c)]
     ELSE c]

\* str.lower
Lower(s) == [i \in DOMAIN s |-> LowerChar[s[i]]]

Min(S) == CHOOSE x \in S : \A y \in S : x <= y

\* a < b on str: code-point lexicographic, a proper prefix is smaller.
StrLess(a, b) ==
  LET n == IF Len(a) < Len(b) THEN Len(a) ELSE Len(b)
      diff == {i \in 1..n : a[i] # b[i]}
  IN  IF diff = {} THEN Len(a) < Len(b)
      ELSE Ord[a[Min(diff)]] < Ord[b[Min(diff)]]

\* a <= b on str
StrLeq(a, b) == ~StrLess(b, a)

\* Mutant of Str: only the last digit is written.
StrLastDigit(n) == <<Digits[(n % 10) + 1]>>

\* str(n) for a non-negative int, as the f-string "{n}" formats it.
RECURSIVE Str(_)
Str(n) ==
  IF n < 10 THEN <<Digits[n + 1]>>
  ELSE Str(n \div 10) \o <<Digits[(n % 10) + 1]>>

\* One step of the stable sort: x goes before the first element whose key is
\* strictly greater, so equal keys keep their input order.
InsertByLower(sorted, x) ==
  LET later == {j \in DOMAIN sorted : StrLess(Lower(x), Lower(sorted[j]))}
      pos == IF later = {} THEN Len(sorted) + 1 ELSE Min(later)
  IN  SubSeq(sorted, 1, pos - 1) \o <<x>> \o SubSeq(sorted, pos, Len(sorted))

\* sorted(seq, key=str.lower) / list.sort(key=str.lower): stable.
RECURSIVE SortByLower(_)
SortByLower(seq) ==
  IF seq = <<>> THEN <<>>
  ELSE InsertByLower(SortByLower(SubSeq(seq, 1, Len(seq) - 1)), seq[Len(seq)])

\* ------------------------------------------------------------------ catalog

DEFAULT_EXPLANATION ==
  "No explanation available. Please refer to official documentation."

\* dll_api_explanations["kernel32.dll"]["apis"] as written, in source order.
apis_kernel32 ==
  <<<<<<"c","r","e","a","t","e","f","i","l","e">>, "Creates or opens a file, device, or I/O resource and returns a handle.">>,
    <<<<"r","e","a","d","f","i","l","e">>, "Reads data from an open file or I/O device into a buffer.">>,
    <<<<"w","r","i","t","e","f","i","l","e">>, "Writes data from a buffer to an open file or I/O device.">>,
    <<<<"c","l","o","s","e","h","a","n","d","l","e">>, "Closes an open object handle and releases its resources.">>,
    <<<<"v","i","r","t","u","a","l","a","l","l","o","c">>, "Reserves or commits a region of pages in the virtual address space.">>,
    <<<<"v","i","r","t","u","a","l","f","r","e","e">>, "Frees or decommits a region of pages in the virtual address space.">>,
    <<<<"g","e","t","p","r","o","c","a","d","d","r","e","s","s">>, "Retrieves the address of an exported function or variable from a DLL.">>,
    <<<<"l","o","a","d","l","i","b","r","a","r","y">>, "Loads the specified DLL into the process's address space.">>,
    <<<<"c","r","e","a","t","e","t","h","r","e","a","d">>, "Creates a new thread within the calling process.">>,
    <<<<"c","r","e","a","t","e","p","r","o","c","e","s","s">>, "Creates a new process and its primary thread.">>,
    <<<<"o","p","e","n","p","r","o","c","e","s","s">>, "Opens an existing process with specified access rights.">>,
    <<<<"t","e","r","m","i","n","a","t","e","p","r","o","c","e","s","s">>, "Forcibly terminates a specified process and its threads.">>,
    <<<<"s","u","s","p","e","n","d","t","h","r","e","a","d">>, "Suspends the execution of a specified thread.">>,
    <<<<"r","e","s","u","m","e","t","h","r","e","a","d">>, "Resumes a suspended thread.">>,
    <<<<"w","a","i","t","f","o","r","s","i","n","g","l","e","o","b","j","e","c","t">>, "Waits until a specified object is in the signaled state.">>,
    <<<<"g","e","t","l","a","s","t","e","r","r","o","r">>, "Retrieves the calling thread's last error code.">>,
    <<<<"g","e","t","m","o","d","u","l","e","h","a","n","d","l","e">>, "Retrieves a handle to a module that is already loaded.">>,
    <<<<"g","e","t","c","u","r","r","e","n","t","p","r","o","c","e","s","s">>, "Returns a pseudo-handle for the current process.">>,
    <<<<"g","e","t","c","u","r","r","e","n","t","t","h","r","e","a","d">>, "Returns a pseudo-handle for the current thread.">>,
    <<<<"e","x","i","t","p","r","o","c","e","s","s">>, "Terminates the current process and all its threads.">>,
    <<<<"s","l","e","e","p">>, "Suspends the execution of the current thread for a specified time interval.">>,
    <<<<"f","i","n","d","f","i","r","s","t","f","i","l","e">>, "Initiates a search for files and directories matching a specified pattern.">>,
    <<<<"f","i","n","d","n","e","x","t","f","i","l","e">>, "Continues a file search from a previous FindFirstFile call.">>,
    <<<<"f","i","n","d","c","l","o","s","e">>, "Closes the search handle opened by FindFirstFile.">>,
    <<<<"d","e","l","e","t","e","f","i","l","e">>, "Deletes a file from the file system.">>,
    <<<<"c","o","p","y","f","i","l","e">>, "Copies an existing file to a new file.">>,
    <<<<"m","o","v","e","f","i","l","e">>, "Moves or renames a file or directory.">>,
    <<<<"c","r","e","a","t","e","m","u","t","e","x">>, "Creates or opens a mutex object for synchronizing access to shared resources.">>,
    <<<<"w","a","i","t","f","o","r","m","u","l","t","i","p","l","e","o","b","j","e","c","t","s">>, "Waits until one or more specified objects are in the signaled state.">>,
    <<<<"c","r","e","a","t","e","e","v","e","n","t">>, "Creates or opens an event object for synchronization purposes.">>,
    <<<<"s","e","t","e","v","e","n","t">>, "Sets the specified event object to the signaled state.">>,
    <<<<"r","e","s","e","t","e","v","e","n","t">>, "Resets the specified event object to the non-signaled state.">>,
    <<<<"c","r","e","a","t","e","f","i","l","e","m","a","p","p","i","n","g">>, "Creates a file mapping object for shared memory between processes.">>,
    <<<<"m","a","p","v","i","e","w","o","f","f","i","l","e">>, "Maps a view of a file mapping into the address space of the calling process.">>,
    <<<<"u","n","m","a","p","v","i","e","w","o","f","f","i","l","e">>, "Unmaps a mapped view of a file from the process's address space.">>,
    <<<<"g","e","t","s","y","s","t","e","m","t","i","m","e">>, "Retrieves the current system date and time in UTC.">>,
    <<<<"s","e","t","s","y","s","t","e","m","t","i","m","e">>, "Sets the system time and date, requiring appropriate privileges.">>,
    <<<<"q","u","e","r","y","p","e","r","f","o","r","m","a","n","c","e","c","o","u","n","t","e","r">>, "Retrieves the current value of the high-resolution performance counter.">>,
    <<<<"q","u","e","r","y","p","e","r","f","o","r","m","a","n","c","e","f","r","e","q","u","e","n","c","y">>, "Retrieves the frequency of the high-resolution performance counter.">>,
    <<<<"c","r","e","a","t","e","n","a","m","e","d","p","i","p","e">>, "Creates an instance of a named pipe for inter-process communication.">>,
    <<<<"c","o","n","n","e","c","t","n","a","m","e","d","p","i","p","e">>, "Connects the server end of a named pipe to a client process.">>,
    <<<<"d","i","s","c","o","n","n","e","c","t","n","a","m","e","d","p","i","p","e">>, "Disconnects the server end of a named pipe from a client.">>,
    <<<<"e","x","i","t","t","h","r","e","a","d">>, "Terminates the calling thread and returns an exit code.">>,
    <<<<"b","e","e","p">>, "Generates simple tones on the speaker.">>,
    <<<<"g","e","t","t","i","c","k","c","o","u","n","t">>, "Retrieves the number of milliseconds that have elapsed since the system was started.">>,
    <<<<"g","l","o","b","a","l","a","l","l","o","c">>, "Allocates memory from the global heap.">>,
    <<<<"g","l","o","b","a","l","f","r","e","e">>, "Frees memory allocated from the global heap.">>,
    <<<<"h","e","a","p","a","l","l","o","c">>, "Allocates a block of memory from a specified heap.">>,
    <<<<"h","e","a","p","f","r","e","e">>, "Frees a memory block allocated from a specified heap.">>,
    <<<<"g","e","t","m","o","d","u","l","e","f","i","l","e","n","a","m","e">>, "Retrieves the fully qualified path for the file that contains the specified module.">>,
    <<<<"g","e","t","f","i","l","e","s","i","z","e">>, "Retrieves the size of the specified file in bytes.">>,
    <<<<"s","e","t","f","i","l","e","p","o","i","n","t","e","r">>, "Moves the file pointer of an open file to a specified position.">>>>

\* dll_api_explanations["user32.dll"]["apis"] as written, in source order.
apis_user32 ==
  <<<<<<"c","r","e","a","t","e","w","i","n","d","o","w","e","x">>, "Creates an overlapped, pop-up, or child window with extended styles.">>,
    <<<<"d","e","f","w","i","n","d","o","w","p","r","o","c">>, "Provides default processing for window messages not handled by the window procedure.">>,
    <<<<"d","i","s","p","a","t","c","h","m","e","s","s","a","g","e">>, "Dispatches a message to a window procedure.">>,
    <<<<"m","e","s","s","a","g","e","b","o","x">>, "Displays a modal dialog box with a message, icons, and buttons.">>,
    <<<<"g","e","t","m","e","s","s","a","g","e">>, "Retrieves a message from the calling thread's message queue.">>,
    <<<<"t","r","a","n","s","l","a","t","e","m","e","s","s","a","g","e">>, "Translates virtual-key messages into character messages.">>,
    <<<<"d","e","s","t","r","o","y","w","i","n","d","o","w">>, "Destroys the specified window and releases its resources.">>,
    <<<<"g","e","t","c","l","i","e","n","t","r","e","c","t">>, "Retrieves the coordinates of a window's client area.">>,
    <<<<"s","c","r","e","e","n","t","o","c","l","i","e","n","t">>, "Converts screen coordinates to client-area coordinates for a window.">>,
    <<<<"c","l","i","e","n","t","t","o","s","c","r","e","e","n">>, "Converts client-area coordinates to screen coordinates for a window.">>,
    <<<<"e","n","a","b","l","e","w","i","n","d","o","w">>, "Enables or disables input to a specified window.">>,
    <<<<"s","e","t","f","o","c","u","s">>, "Sets the keyboard focus to a specified window.">>,
    <<<<"g","e","t","f","o","c","u","s">>, "Retrieves the handle to the window that has the keyboard focus.">>,
    <<<<"p","o","s","t","m","e","s","s","a","g","e">>, "Posts a message to the message queue of a specified window.">>,
    <<<<"s","e","n","d","m","e","s","s","a","g","e">>, "Sends a message to a window and waits for it to be processed.">>,
    <<<<"s","e","t","f","o","r","e","g","r","o","u","n","d","w","i","n","d","o","w">>, "Brings the specified window to the foreground.">>,
    <<<<"s","h","o","w","w","i","n","d","o","w">>, "Sets the show state (minimized, maximized, etc.) of a window.">>,
    <<<<"u","p","d","a","t","e","w","i","n","d","o","w">>, "Forces a window to repaint immediately.">>,
    <<<<"g","e","t","w","i","n","d","o","w","t","e","x","t">>, "Retrieves the title bar text of a window.">>,
    <<<<"s","e","t","w","i","n","d","o","w","t","e","x","t">>, "Changes the title bar text of a window.">>,
    <<<<"a","d","j","u","s","t","w","i","n","d","o","w","r","e","c","t">>, "Calculates the required window rectangle to accommodate a desired client area, considering window styles.">>,
    <<<<"a","d","j","u","s","t","w","i","n","d","o","w","r","e","c","t","e","x">>, "Calculates the window rectangle size including extended styles for accurate layout.">>,
    <<<<"g","e","t","s","y","s","t","e","m","m","e","t","r","i","c","s">>, "Retrieves various system metrics and configuration settings, such as screen dimensions.">>,
    <<<<"s","e","t","c","u","r","s","o","r">>, "Sets the current cursor shape to the specified cursor handle.">>,
    <<<<"l","o","a","d","c","u","r","s","o","r">>, "Loads the specified cursor resource from the executable or a DLL.">>,
    <<<<"s","e","t","c","u","r","s","o","r","p","o","s">>, "Moves the cursor to the specified screen coordinates.">>,
    <<<<"g","e","t","c","u","r","s","o","r","p","o","s">>, "Retrieves the current position of the cursor on the screen.">>,
    <<<<"r","e","g","i","s","t","e","r","c","l","a","s","s">>, "Registers a window class for subsequent window creation.">>,
    <<<<"u","n","r","e","g","i","s","t","e","r","c","l","a","s","s">>, "Unregisters a previously registered window class, freeing associated resources.">>,
    <<<<"s","e","t","w","i","n","d","o","w","p","o","s">>, "Changes the size, position, and Z order of a window.">>,
    <<<<"g","e","t","w","i","n","d","o","w">>, "Retrieves a handle to a window with a specified relationship to a given window.">>,
    <<<<"i","s","w","i","n","d","o","w">>, "Determines whether the specified window handle identifies an existing window.">>,
    <<<<"s","e","t","w","i","n","d","o","w","p","l","a","c","e","m","e","n","t">>, "Sets the show state and placement (position and size) of a window.">>,
    <<<<"g","e","t","w","i","n","d","o","w","p","l","a","c","e","m","e","n","t">>, "Retrieves the current show state and window placement information of a window.">>,
    <<<<"d","r","a","w","i","c","o","n">>, "Draws an icon or cursor into the specified device context.">>,
    <<<<"d","r","a","w","t","e","x","t">>, "Draws formatted text in a specified rectangle using the selected font.">>,
    <<<<"p","e","e","k","m","e","s","s","a","g","e">>, "Checks the message queue for a message without removing it, optionally retrieving the message.">>,
    <<<<"r","e","g","i","s","t","e","r","h","o","t","k","e","y">>, "Registers a system-wide hot key that can trigger specific actions when pressed.">>,
    <<<<"u","n","r","e","g","i","s","t","e","r","h","o","t","k","e","y">>, "Unregisters a system-wide hot key, freeing it for other uses.">>,
    <<<<"g","e","t","d","c">>, "Retrieves a handle to a device context (DC) for the client area of a specified window.">>,
    <<<<"r","e","l","e","a","s","e","d","c">>, "Releases a device context (DC), freeing it for use by other applications.">>,
    <<<<"l","o","a","d","i","c","o","n">>, "Loads the specified icon resource from the executable or a DLL.">>,
    <<<<"s","e","t","w","i","n","d","o","w","l","o","n","g">>, "Changes an attribute of the specified window (e.g., style or window procedure pointer).">>,
    <<<<"g","e","t","w","i","n","d","o","w","l","o","n","g">>, "Retrieves information about the specified window, such as styles or extended attributes.">>,
    <<<<"f","l","a","s","h","w","i","n","d","o","w">>, "Flashes the specified window to draw the user's attention.">>,
    <<<<"e","n","d","d","i","a","l","o","g">>, "Ends a modal dialog box, returning control to the main application.">>,
    <<<<"g","e","t","s","y","s","t","e","m","m","e","n","u">>, "Retrieves a handle to the window menu for the specified window.">>,
    <<<<"t","r","a","c","k","p","o","p","u","p","m","e","n","u">>, "Displays a shortcut menu at the specified location and tracks the selection of items.">>,
    <<<<"s","e","t","l","a","y","e","r","e","d","w","i","n","d","o","w","a","t","t","r","i","b","u","t","e","s">>, "Sets the opacity and transparency color key of a layered window.">>,
    <<<<"d","r","a","w","f","r","a","m","e","c","o","n","t","r","o","l">>, "Draws a frame control of a specified type and style.">>>>

\* dll_api_explanations["advapi32.dll"]["apis"] as written, in source order.
apis_advapi32 ==
  <<<<<<"O","p","e","n","S","C","M","a","n","a","g","e","r","A">>, "Opens a handle to the Service Control Manager database (ANSI).">>,
    <<<<"O","p","e","n","S","e","r","v","i","c","e","A">>, "Opens an existing service from the SCM database (ANSI).">>,
    <<<<"R","e","g","C","l","o","s","e","K","e","y">>, "Closes a handle to a registry key.">>,
    <<<<"R","e","g","O","p","e","n","K","e","y","A">>, "Opens a registry key (ANSI, basic access).">>,
    <<<<"R","e","g","O","p","e","n","K","e","y","E","x","A">>, "Opens a registry key with extended options (ANSI).">>,
    <<<<"R","e","g","Q","u","e","r","y","V","a","l","u","e","E","x","A">>, "Retrieves the type and data of a registry value (ANSI).">>,
    <<<<"r","e","g","o","p","e","n","k","e","y","e","x">>, "Opens a registry key with the desired access rights.">>,
    <<<<"r","e","g","q","u","e","r","y","v","a","l","u","e","e","x">>, "Retrieves the type and data for a specified registry value.">>,
    <<<<"r","e","g","s","e","t","v","a","l","u","e","e","x">>, "Sets the data for a specified registry value.">>,
    <<<<"r","e","g","e","n","u","m","k","e","y","e","x">>, "Enumerates subkeys of an open registry key.">>,
    <<<<"r","e","g","e","n","u","m","v","a","l","u","e">>, "Enumerates the values of an open registry key.">>,
    <<<<"r","e","g","c","l","o","s","e","k","e","y">>, "Closes a handle to a registry key.">>,
    <<<<"r","e","g","c","r","e","a","t","e","k","e","y","e","x">>, "Creates or opens a registry key with specified options.">>,
    <<<<"r","e","g","d","e","l","e","t","e","k","e","y">>, "Deletes a specified registry key.">>,
    <<<<"r","e","g","d","e","l","e","t","e","v","a","l","u","e">>, "Deletes a value from a registry key.">>,
    <<<<"r","e","g","q","u","e","r","y","i","n","f","o","k","e","y">>, "Retrieves information about a registry key.">>,
    <<<<"l","o","o","k","u","p","p","r","i","v","i","l","e","g","e","v","a","l","u","e">>, "Retrieves the LUID for a specified privilege.">>,
    <<<<"a","d","j","u","s","t","t","o","k","e","n","p","r","i","v","i","l","e","g","e","s">>, "Enables or disables privileges in an access token.">>,
    <<<<"o","p","e","n","p","r","o","c","e","s","s","t","o","k","e","n">>, "Opens the access token associated with a process.">>,
    <<<<"d","u","p","l","i","c","a","t","e","h","a","n","d","l","e">>, "Duplicates an object handle for use in another process.">>,
    <<<<"r","e","g","l","o","a","d","k","e","y">>, "Loads registry data from a file into a registry key.">>,
    <<<<"r","e","g","u","n","l","o","a","d","k","e","y">>, "Unloads registry data from a registry key.">>,
    <<<<"s","t","a","r","t","s","e","r","v","i","c","e">>, "Starts a service.">>,
    <<<<"o","p","e","n","s","e","r","v","i","c","e">>, "Opens an existing service.">>,
    <<<<"q","u","e","r","y","s","e","r","v","i","c","e","c","o","n","f","i","g">>, "Retrieves configuration parameters for a service.">>,
    <<<<"c","h","a","n","g","e","s","e","r","v","i","c","e","c","o","n","f","i","g">>, "Modifies the configuration parameters of a service.">>,
    <<<<"i","m","p","e","r","s","o","n","a","t","e","l","o","g","g","e","d","o","n","u","s","e","r">>, "Impersonates a logged-on user, allowing a thread to assume the user's security context.">>,
    <<<<"r","e","v","e","r","t","t","o","s","e","l","f">>, "Terminates the impersonation of a client and reverts the thread's security context to the process.">>,
    <<<<"o","p","e","n","s","c","m","a","n","a","g","e","r">>, "Opens a handle to the service control manager on the specified computer.">>,
    <<<<"c","r","e","a","t","e","s","e","r","v","i","c","e">>, "Creates a service object and adds it to the service control manager database.">>,
    <<<<"d","e","l","e","t","e","s","e","r","v","i","c","e">>, "Marks a service for deletion from the service control manager database.">>,
    <<<<"c","o","n","t","r","o","l","s","e","r","v","i","c","e">>, "Sends a control code to a service to perform a specific action.">>,
    <<<<"c","l","o","s","e","s","e","r","v","i","c","e","h","a","n","d","l","e">>, "Closes a handle to a service control manager or service object.">>,
    <<<<"q","u","e","r","y","s","e","r","v","i","c","e","s","t","a","t","u","s">>, "Retrieves the current status of a specified service.">>,
    <<<<"q","u","e","r","y","s","e","r","v","i","c","e","s","t","a","t","u","s","e","x">>, "Retrieves extended status information for a specified service.">>,
    <<<<"s","t","a","r","t","s","e","r","v","i","c","e","c","t","r","l","d","i","s","p","a","t","c","h","e","r">>, "Connects the main thread of a service process to the service control manager for message handling.">>,
    <<<<"s","e","t","s","e","r","v","i","c","e","s","t","a","t","u","s">>, "Sets the current status of a service, reporting its state to the service control manager.">>,
    <<<<"g","e","t","s","e","c","u","r","i","t","y","i","n","f","o">>, "Retrieves security information about a specified object, such as a registry key or service.">>,
    <<<<"s","e","t","s","e","c","u","r","i","t","y","i","n","f","o">>, "Sets security information for a specified object, modifying its access control list.">>,
    <<<<"c","o","n","v","e","r","t","s","t","r","i","n","g","s","e","c","u","r","i","t","y","d","e","s","c","r","i","p","t","o","r","t","o","s","e","c","u","r","i","t","y","d","e","s","c","r","i","p","t","o","r">>, "Converts a string-format security descriptor into a valid security descriptor.">>,
    <<<<"g","e","t","t","o","k","e","n","i","n","f","o","r","m","a","t","i","o","n">>, "Retrieves specified information about an access token.">>,
    <<<<"s","e","t","t","o","k","e","n","i","n","f","o","r","m","a","t","i","o","n">>, "Sets various types of information for an access token.">>,
    <<<<"a","u","d","i","t","a","c","c","o","u","n","t","p","o","l","i","c","y","c","h","a","n","g","e">>, "Audits changes to account policies.">>,
    <<<<"a","u","d","i","t","p","r","i","v","i","l","e","g","e","u","s","e">>, "Audits the use of privileges.">>,
    <<<<"b","a","c","k","u","p","r","e","g","i","s","t","r","y","f","i","l","e">>, "Backs up a specified registry key to a file.">>,
    <<<<"r","e","s","t","o","r","e","r","e","g","i","s","t","r","y","f","i","l","e">>, "Restores a registry key from a backup file.">>,
    <<<<"e","n","c","r","y","p","t","f","i","l","e">>, "Encrypts a file or directory.">>,
    <<<<"d","e","c","r","y","p","t","f","i","l","e">>, "Decrypts a file or directory.">>,
    <<<<"o","p","e","n","b","a","c","k","u","p","e","v","e","n","t","l","o","g">>, "Opens a backup copy of the event log for reading.">>,
    <<<<"c","l","e","a","r","e","v","e","n","t","l","o","g">>, "Clears the specified event log.">>,
    <<<<"r","e","g","s","a","v","e","k","e","y","e","x">>, "Saves the specified registry key to a file, including security settings.">>,
    <<<<"r","e","g","r","e","s","t","o","r","e","k","e","y">>, "Restores a registry key from a file.">>,
    <<<<"r","e","g","l","o","a","d","a","p","p","k","e","y">>, "Loads a registry hive from a file into a specified key.">>,
    <<<<"r","e","g","u","n","l","o","a","d","a","p","p","k","e","y">>, "Unloads a previously loaded registry hive.">>,
    <<<<"s","e","t","n","a","m","e","d","s","e","c","u","r","i","t","y","i","n","f","o">>, "Sets security information for a specified object by name.">>,
    <<<<"g","e","t","n","a","m","e","d","s","e","c","u","r","i","t","y","i","n","f","o">>, "Retrieves security information for a specified object by name.">>,
    <<<<"R","e","g","C","o","n","n","e","c","t","R","e","g","i","s","t","r","y">>, "Establishes a connection to a remote registry.">>,
    <<<<"R","e","g","O","p","e","n","U","s","e","r","C","l","a","s","s","e","s","R","o","o","t">>, "Opens the user classes registry key for a specified user.">>,
    <<<<"R","e","g","O","v","e","r","r","i","d","e","P","r","e","d","e","f","K","e","y">>, "Overrides a predefined registry key with a specified key.">>,
    <<<<"R","e","g","Q","u","e","r","y","M","u","l","t","i","p","l","e","V","a","l","u","e","s">>, "Retrieves values for multiple registry keys in one call.">>,
    <<<<"R","e","g","S","e","t","K","e","y","S","e","c","u","r","i","t","y">>, "Sets the security of a registry key.">>,
    <<<<"R","e","g","Q","u","e","r","y","K","e","y","S","e","c","u","r","i","t","y">>, "Retrieves the security of a registry key.">>,
    <<<<"R","e","g","S","a","v","e","K","e","y">>, "Saves the specified registry key and its subkeys to a file.">>,
    <<<<"R","e","g","C","o","n","n","e","c","t","R","e","g","i","s","t","r","y","E","x">>, "Establishes an extended connection to a remote registry.">>,
    <<<<"O","p","e","n","S","C","M","a","n","a","g","e","r","E","x">>, "Opens a handle to the service control manager with extended access.">>,
    <<<<"C","h","a","n","g","e","S","e","r","v","i","c","e","C","o","n","f","i","g","2">>, "Changes additional configuration parameters of a service.">>,
    <<<<"Q","u","e","r","y","S","e","r","v","i","c","e","C","o","n","f","i","g","2">>, "Retrieves additional configuration parameters of a service.">>,
    <<<<"S","t","a","r","t","S","e","r","v","i","c","e","C","t","r","l","D","i","s","p","a","t","c","h","e","r">>, "Connects the main thread of a service process to the service control manager.">>,
    <<<<"R","e","g","i","s","t","e","r","S","e","r","v","i","c","e","C","t","r","l","H","a","n","d","l","e","r","E","x">>, "Registers a service control handler that can receive extended control codes.">>,
    <<<<"G","e","t","S","e","r","v","i","c","e","K","e","y","N","a","m","e">>, "Retrieves the service key name for a specified service.">>,
    <<<<"G","e","t","S","e","r","v","i","c","e","D","i","s","p","l","a","y","N","a","m","e">>, "Retrieves the display name for a specified service.">>,
    <<<<"C","r","e","a","t","e","B","o","u","n","d","a","r","y","D","e","s","c","r","i","p","t","o","r">>, "Creates a boundary descriptor for security isolation.">>,
    <<<<"A","d","d","S","I","D","T","o","B","o","u","n","d","a","r","y","D","e","s","c","r","i","p","t","o","r">>, "Adds a SID to a boundary descriptor.">>,
    <<<<"D","e","l","e","t","e","B","o","u","n","d","a","r","y","D","e","s","c","r","i","p","t","o","r">>, "Deletes a boundary descriptor and frees associated resources.">>,
    <<<<"C","r","e","a","t","e","R","e","s","t","r","i","c","t","e","d","T","o","k","e","n">>, "Creates a restricted access token with reduced privileges.">>,
    <<<<"I","s","W","e","l","l","K","n","o","w","n","S","i","d">>, "Determines if a SID is a well-known SID.">>,
    <<<<"G","e","t","S","e","c","u","r","i","t","y","D","e","s","c","r","i","p","t","o","r","C","o","n","t","r","o","l">>, "Retrieves control bits from a security descriptor.">>,
    <<<<"S","e","t","S","e","c","u","r","i","t","y","D","e","s","c","r","i","p","t","o","r","C","o","n","t","r","o","l">>, "Sets control bits in a security descriptor.">>,
    <<<<"I","n","i","t","i","a","l","i","z","e","S","e","c","u","r","i","t","y","D","e","s","c","r","i","p","t","o","r">>, "Initializes a new security descriptor.">>,
    <<<<"S","e","t","S","e","c","u","r","i","t","y","D","e","s","c","r","i","p","t","o","r","D","a","c","l">>, "Sets the discretionary ACL (DACL) in a security descriptor.">>,
    <<<<"G","e","t","S","e","c","u","r","i","t","y","D","e","s","c","r","i","p","t","o","r","D","a","c","l">>, "Retrieves the discretionary ACL from a security descriptor.">>,
    <<<<"S","e","t","S","e","c","u","r","i","t","y","D","e","s","c","r","i","p","t","o","r","S","a","c","l">>, "Sets the system ACL (SACL) in a security descriptor.">>,
    <<<<"G","e","t","S","e","c","u","r","i","t","y","D","e","s","c","r","i","p","t","o","r","S","a","c","l">>, "Retrieves the system ACL from a security descriptor.">>,
    <<<<"S","e","t","S","e","c","u","r","i","t","y","D","e","s","c","r","i","p","t","o","r","O","w","n","e","r">>, "Sets the owner in a security descriptor.">>,
    <<<<"G","e","t","S","e","c","u","r","i","t","y","D","e","s","c","r","i","p","t","o","r","O","w","n","e","r">>, "Retrieves the owner from a security descriptor.">>,
    <<<<"S","e","t","S","e","c","u","r","i","t","y","D","e","s","c","r","i","p","t","o","r","G","r","o","u","p">>, "Sets the primary group in a security descriptor.">>,
    <<<<"G","e","t","S","e","c","u","r","i","t","y","D","e","s","c","r","i","p","t","o","r","G","r","o","u","p">>, "Retrieves the primary group from a security descriptor.">>,
    <<<<"C","o","n","v","e","r","t","S","e","c","u","r","i","t","y","D","e","s","c","r","i","p","t","o","r","T","o","S","t","r","i","n","g","S","e","c","u","r","i","t","y","D","e","s","c","r","i","p","t","o","r">>, "Converts a security descriptor to its string representation.">>,
    <<<<"C","o","n","v","e","r","t","S","t","r","i","n","g","S","e","c","u","r","i","t","y","D","e","s","c","r","i","p","t","o","r","T","o","S","e","c","u","r","i","t","y","D","e","s","c","r","i","p","t","o","r">>, "Converts a string-format security descriptor to a binary security descriptor.">>,
    <<<<"Q","u","e","r","y","S","e","c","u","r","i","t","y","A","c","c","e","s","s","M","a","s","k">>, "Retrieves the access mask for a specified object.">>,
    <<<<"G","e","t","E","f","f","e","c","t","i","v","e","R","i","g","h","t","s","F","r","o","m","A","c","l">>, "Retrieves the effective rights for a trustee from an ACL.">>,
    <<<<"S","e","t","E","n","t","r","i","e","s","I","n","A","c","l">>, "Creates a new ACL by merging explicit access entries with an existing ACL.">>,
    <<<<"G","e","t","A","u","d","i","t","e","d","P","e","r","m","i","s","s","i","o","n","s","F","r","o","m","A","c","l">>, "Retrieves the audited permissions for a trustee from an ACL.">>,
    <<<<"B","u","i","l","d","E","x","p","l","i","c","i","t","A","c","c","e","s","s","W","i","t","h","N","a","m","e">>, "Initializes an EXPLICIT_ACCESS structure with specified values.">>,
    <<<<"G","e","t","E","x","p","l","i","c","i","t","E","n","t","r","i","e","s","F","r","o","m","A","c","l">>, "Retrieves explicit access control entries from an ACL.">>,
    <<<<"G","e","t","S","e","c","u","r","i","t","y","D","e","s","c","r","i","p","t","o","r","L","e","n","g","t","h">>, "Retrieves the length of a security descriptor.">>,
    <<<<"G","e","t","F","i","l","e","S","e","c","u","r","i","t","y">>, "Retrieves security information about a file.">>,
    <<<<"S","e","t","F","i","l","e","S","e","c","u","r","i","t","y">>, "Sets security information for a file.">>,
    <<<<"I","m","p","e","r","s","o","n","a","t","e","S","e","l","f">>, "Impersonates the calling process's security context.">>,
    <<<<"R","e","v","e","r","t","T","o","S","e","l","f">>, "Reverts to the process's original security context.">>,
    <<<<"O","p","e","n","T","h","r","e","a","d","T","o","k","e","n">>, "Opens the access token associated with a thread.">>,
    <<<<"D","u","p","l","i","c","a","t","e","T","o","k","e","n">>, "Duplicates an access token.">>,
    <<<<"D","u","p","l","i","c","a","t","e","T","o","k","e","n","E","x">>, "Duplicates an access token with extended rights.">>,
    <<<<"C","o","n","v","e","r","t","S","i","d","T","o","S","t","r","i","n","g","S","i","d">>, "Converts a binary SID to its string representation.">>,
    <<<<"C","o","n","v","e","r","t","S","t","r","i","n","g","S","i","d","T","o","S","i","d">>, "Converts a string SID to a binary SID.">>,
    <<<<"A","l","l","o","c","a","t","e","A","n","d","I","n","i","t","i","a","l","i","z","e","S","i","d">>, "Allocates and initializes a SID with a specified identifier authority.">>>>

\* dll_api_explanations["ntdll.dll"]["apis"] as written, in source order.
apis_ntdll ==
  <<<<<<"n","t","c","r","e","a","t","e","f","i","l","e">>, "Creates or opens a file using NT system calls.">>,
    <<<<"n","t","o","p","e","n","f","i","l","e">>, "Opens a file using NT system calls.">>,
    <<<<"n","t","r","e","a","d","f","i","l","e">>, "Reads data from a file using NT system calls.">>,
    <<<<"n","t","w","r","i","t","e","f","i","l","e">>, "Writes data to a file using NT system calls.">>,
    <<<<"n","t","c","l","o","s","e">>, "Closes a handle using NT system calls.">>,
    <<<<"n","t","q","u","e","r","y","i","n","f","o","r","m","a","t","i","o","n","p","r","o","c","e","s","s">>, "Retrieves process information using NT system calls.">>,
    <<<<"n","t","q","u","e","r","y","s","y","s","t","e","m","i","n","f","o","r","m","a","t","i","o","n">>, "Retrieves system information using NT system calls.">>,
    <<<<"n","t","q","u","e","r","y","i","n","f","o","r","m","a","t","i","o","n","f","i","l","e">>, "Retrieves file information using NT system calls.">>,
    <<<<"n","t","s","e","t","i","n","f","o","r","m","a","t","i","o","n","f","i","l","e">>, "Sets file information using NT system calls.">>,
    <<<<"n","t","a","l","l","o","c","a","t","e","v","i","r","t","u","a","l","m","e","m","o","r","y">>, "Allocates virtual memory using NT system calls.">>,
    <<<<"n","t","f","r","e","e","v","i","r","t","u","a","l","m","e","m","o","r","y">>, "Frees virtual memory using NT system calls.">>,
    <<<<"n","t","d","e","l","a","y","e","x","e","c","u","t","i","o","n">>, "Delays execution of the current thread using NT system calls.">>,
    <<<<"n","t","q","u","e","r","y","o","b","j","e","c","t">>, "Retrieves information about an NT object.">>,
    <<<<"n","t","q","u","e","r","y","d","i","r","e","c","t","o","r","y","f","i","l","e">>, "Enumerates directory entries using NT system calls.">>,
    <<<<"n","t","c","r","e","a","t","e","t","h","r","e","a","d">>, "Creates a thread using NT system calls.">>,
    <<<<"n","t","e","x","i","t","p","r","o","c","e","s","s">>, "Terminates a process using NT system calls.">>,
    <<<<"n","t","t","e","r","m","i","n","a","t","e","p","r","o","c","e","s","s">>, "Terminates a process using NT system calls.">>,
    <<<<"n","t","d","i","s","p","a","t","c","h","r","e","q","u","e","s","t">>, "Dispatches an NT system call request.">>,
    <<<<"n","t","d","o","i","o","c","t","l">>, "Performs an I/O control operation using NT system calls.">>,
    <<<<"n","t","u","n","w","i","n","d">>, "Unwinds the stack during exception handling using NT system calls.">>,
    <<<<"n","t","q","u","e","r","y","i","n","f","o","r","m","a","t","i","o","n","t","h","r","e","a","d">>, "Retrieves information about a thread using NT system calls.">>,
    <<<<"n","t","s","e","t","i","n","f","o","r","m","a","t","i","o","n","t","h","r","e","a","d">>, "Sets information for a thread using NT system calls.">>,
    <<<<"n","t","r","e","a","d","v","i","r","t","u","a","l","m","e","m","o","r","y">>, "Reads memory from a process's virtual address space using NT system calls.">>,
    <<<<"n","t","w","r","i","t","e","v","i","r","t","u","a","l","m","e","m","o","r","y">>, "Writes memory to a process's virtual address space using NT system calls.">>,
    <<<<"n","t","o","p","e","n","p","r","o","c","e","s","s">>, "Opens a process using NT system calls.">>,
    <<<<"n","t","q","u","e","r","y","s","y","s","t","e","m","e","n","v","i","r","o","n","m","e","n","t","v","a","l","u","e">>, "Retrieves environment variable values from the system.">>,
    <<<<"n","t","s","e","t","s","y","s","t","e","m","e","n","v","i","r","o","n","m","e","n","t","v","a","l","u","e">>, "Sets system environment variable values using NT system calls.">>,
    <<<<"n","t","q","u","e","r","y","p","e","r","f","o","r","m","a","n","c","e","c","o","u","n","t","e","r">>, "Retrieves performance counter information using NT system calls.">>,
    <<<<"n","t","f","l","u","s","h","i","n","s","t","r","u","c","t","i","o","n","c","a","c","h","e">>, "Flushes the instruction cache of a process.">>,
    <<<<"n","t","c","o","n","t","i","n","u","e">>, "Resumes execution of a thread interrupted by an exception.">>,
    <<<<"n","t","t","e","r","m","i","n","a","t","e","t","h","r","e","a","d">>, "Terminates a thread using NT system calls.">>,
    <<<<"n","t","o","p","e","n","t","h","r","e","a","d">>, "Opens a handle to a thread using NT system calls.">>,
    <<<<"n","t","q","u","e","r","y","v","i","r","t","u","a","l","m","e","m","o","r","y">>, "Retrieves information about a region of virtual memory.">>,
    <<<<"n","t","p","r","o","t","e","c","t","v","i","r","t","u","a","l","m","e","m","o","r","y">>, "Changes the protection on a region of virtual memory.">>,
    <<<<"n","t","c","r","e","a","t","e","s","e","c","t","i","o","n">>, "Creates a section object for shared memory.">>,
    <<<<"n","t","m","a","p","v","i","e","w","o","f","s","e","c","t","i","o","n">>, "Maps a view of a section into a process's virtual address space.">>,
    <<<<"n","t","u","n","m","a","p","v","i","e","w","o","f","s","e","c","t","i","o","n">>, "Unmaps a previously mapped view of a section.">>,
    <<<<"n","t","q","u","e","r","y","a","t","t","r","i","b","u","t","e","s","f","i","l","e">>, "Retrieves attributes of a file using NT system calls.">>,
    <<<<"n","t","s","e","t","i","n","f","o","r","m","a","t","i","o","n","o","b","j","e","c","t">>, "Sets information for an NT object.">>,
    <<<<"n","t","q","u","e","r","y","s","e","c","u","r","i","t","y","o","b","j","e","c","t">>, "Retrieves security information for an NT object.">>,
    <<<<"n","t","s","e","t","s","e","c","u","r","i","t","y","o","b","j","e","c","t">>, "Sets security information for an NT object.">>,
    <<<<"n","t","o","p","e","n","d","i","r","e","c","t","o","r","y","o","b","j","e","c","t">>, "Opens a handle to a directory object in the NT namespace.">>,
    <<<<"n","t","q","u","e","r","y","d","i","r","e","c","t","o","r","y","o","b","j","e","c","t">>, "Enumerates objects in an NT directory.">>,
    <<<<"n","t","c","l","o","s","e","o","b","j","e","c","t">>, "Closes a handle to an NT object.">>,
    <<<<"n","t","o","p","e","n","m","u","t","a","n","t">>, "Opens a mutant (mutex) object using NT system calls.">>,
    <<<<"n","t","r","e","l","e","a","s","e","m","u","t","a","n","t">>, "Releases a mutant (mutex) object using NT system calls.">>,
    <<<<"n","t","o","p","e","n","s","e","c","t","i","o","n">>, "Opens an existing section object.">>,
    <<<<"n","t","q","u","e","r","y","s","e","c","t","i","o","n">>, "Retrieves information about a section object.">>,
    <<<<"n","t","s","e","t","i","n","f","o","r","m","a","t","i","o","n","s","e","c","t","i","o","n">>, "Sets information for a section object.">>,
    <<<<"n","t","c","r","e","a","t","e","e","v","e","n","t">>, "Creates an event object using NT system calls.">>>>

\* dll_api_explanations["ws2_32.dll"]["apis"] as written, in source order.
apis_ws2_32 ==
  <<<<<<"s","o","c","k","e","t">>, "Creates a socket for network communications.">>,
    <<<<"b","i","n","d">>, "Associates a local address with a socket.">>,
    <<<<"l","i","s","t","e","n">>, "Places a socket in a state to accept incoming connections.">>,
    <<<<"a","c","c","e","p","t">>, "Accepts an incoming connection on a listening socket.">>,
    <<<<"c","o","n","n","e","c","t">>, "Establishes a connection to a remote socket.">>,
    <<<<"s","e","n","d">>, "Sends data over a connected socket.">>,
    <<<<"r","e","c","v">>, "Receives data from a connected socket.">>,
    <<<<"c","l","o","s","e","s","o","c","k","e","t">>, "Closes a socket.">>,
    <<<<"i","o","c","t","l","s","o","c","k","e","t">>, "Sets or retrieves the I/O mode of a socket.">>,
    <<<<"s","h","u","t","d","o","w","n">>, "Disables sends or receives on a socket.">>,
    <<<<"w","s","a","s","t","a","r","t","u","p">>, "Initializes the Winsock library.">>,
    <<<<"w","s","a","c","l","e","a","n","u","p">>, "Terminates the use of the Winsock library.">>,
    <<<<"g","e","t","h","o","s","t","b","y","n","a","m","e">>, "Retrieves host information based on a host name.">>,
    <<<<"g","e","t","h","o","s","t","b","y","a","d","d","r">>, "Retrieves host information based on an IP address.">>,
    <<<<"s","e","l","e","c","t">>, "Monitors multiple sockets for readiness to perform I/O.">>,
    <<<<"w","s","a","s","e","n","d">>, "Sends data over a socket with additional options.">>,
    <<<<"w","s","a","r","e","c","v">>, "Receives data over a socket with additional options.">>,
    <<<<"w","s","a","s","e","n","d","t","o">>, "Sends data to a specific destination over a socket.">>,
    <<<<"w","s","a","r","e","c","v","f","r","o","m">>, "Receives data from a specific source on a socket.">>,
    <<<<"w","s","a","w","a","i","t","f","o","r","m","u","l","t","i","p","l","e","e","v","e","n","t","s">>, "Waits for multiple Winsock events to be signaled.">>,
    <<<<"g","e","t","a","d","d","r","i","n","f","o">>, "Resolves a host name to an address, supporting both IPv4 and IPv6.">>,
    <<<<"f","r","e","e","a","d","d","r","i","n","f","o">>, "Frees memory allocated for address information by getaddrinfo.">>,
    <<<<"g","e","t","n","a","m","e","i","n","f","o">>, "Translates a socket address to a corresponding host and service.">>,
    <<<<"W","S","A","A","s","y","n","c","S","e","l","e","c","t">>, "Requests that a socket send a message when an event occurs.">>,
    <<<<"W","S","A","E","v","e","n","t","S","e","l","e","c","t">>, "Specifies an event object to be associated with a socket.">>,
    <<<<"W","S","A","C","r","e","a","t","e","E","v","e","n","t">>, "Creates a new event object for use with Winsock.">>,
    <<<<"W","S","A","S","e","t","E","v","e","n","t">>, "Sets the specified event object to the signaled state.">>,
    <<<<"W","S","A","C","l","o","s","e","E","v","e","n","t">>, "Closes a Winsock event object.">>,
    <<<<"W","S","A","W","a","i","t","F","o","r","M","u","l","t","i","p","l","e","E","v","e","n","t","s">>, "Waits for one or more event objects to be signaled.">>,
    <<<<"W","S","A","E","n","u","m","N","e","t","w","o","r","k","E","v","e","n","t","s">>, "Enumerates network events that have occurred on a socket.">>,
    <<<<"W","S","A","G","e","t","L","a","s","t","E","r","r","o","r">>, "Retrieves the error status for the last Winsock operation.">>,
    <<<<"W","S","A","I","n","s","t","a","l","l","S","e","r","v","i","c","e","C","l","a","s","s">>, "Installs a service class into the Winsock catalog.">>,
    <<<<"W","S","A","R","e","m","o","v","e","S","e","r","v","i","c","e","C","l","a","s","s">>, "Removes a service class from the Winsock catalog.">>,
    <<<<"W","S","A","G","e","t","S","e","r","v","i","c","e","C","l","a","s","s","I","n","f","o">>, "Retrieves information about a Winsock service class.">>,
    <<<<"W","S","A","E","n","u","m","P","r","o","t","o","c","o","l","s">>, "Enumerates the transport protocols available on the system.">>,
    <<<<"W","S","A","S","e","t","L","a","s","t","E","r","r","o","r">>, "Sets the error status for the calling thread (rarely used).">>,
    <<<<"W","S","A","G","e","t","O","v","e","r","l","a","p","p","e","d","R","e","s","u","l","t">>, "Retrieves the results of an overlapped operation on a socket.">>,
    <<<<"W","S","A","R","e","c","v","D","i","s","c","o","n","n","e","c","t">>, "Receives a disconnect notification on a connection-oriented socket.">>,
    <<<<"W","S","A","S","e","n","d","D","i","s","c","o","n","n","e","c","t">>, "Sends a disconnect notification on a connection-oriented socket.">>,
    <<<<"W","S","A","C","o","n","n","e","c","t">>, "Initiates a connection on a socket with additional parameters.">>,
    <<<<"W","S","A","C","l","o","s","e","S","o","c","k","e","t">>, "Alternative function to closesocket.">>,
    <<<<"W","S","A","I","o","c","t","l">>, "Controls or retrieves the configuration of a socket.">>,
    <<<<"W","S","A","A","s","y","n","c","G","e","t","H","o","s","t","B","y","N","a","m","e">>, "Requests host name resolution asynchronously.">>,
    <<<<"W","S","A","A","s","y","n","c","G","e","t","P","r","o","t","o","B","y","N","a","m","e">>, "Requests protocol information asynchronously.">>,
    <<<<"W","S","A","A","s","y","n","c","G","e","t","S","e","r","v","B","y","N","a","m","e">>, "Requests service information asynchronously.">>,
    <<<<"W","S","A","S","t","a","r","t","u","p","E","x">>, "Extended startup function for Winsock.">>,
    <<<<"W","S","A","R","e","c","v","M","s","g">>, "Receives a message and associated control information on a socket.">>,
    <<<<"W","S","A","S","e","n","d","M","s","g">>, "Sends a message and associated control information on a socket.">>,
    <<<<"W","S","A","R","e","c","v","E","x">>, "Receives data on a socket using an extended method.">>>>

\* dll_api_explanations["wininet.dll"]["apis"] as written, in source order.
apis_wininet ==
  <<<<<<"h","t","t","p","a","d","d","r","e","q","u","e","s","t","h","e","a","d","e","r","s","a">>, "Adds extra HTTP request headers to an HTTP request handle.">>,
    <<<<"h","t","t","p","e","n","d","r","e","q","u","e","s","t","a">>, "Ends an HTTP request initiated by HttpSendRequestEx.">>,
    <<<<"h","t","t","p","o","p","e","n","r","e","q","u","e","s","t","a">>, "Creates an HTTP request handle for a specified URL and method.">>,
    <<<<"h","t","t","p","q","u","e","r","y","i","n","f","o","a">>, "Retrieves HTTP response headers or status information.">>,
    <<<<"h","t","t","p","s","e","n","d","r","e","q","u","e","s","t","a">>, "Sends the HTTP request and begins receiving the response.">>,
    <<<<"h","t","t","p","s","e","n","d","r","e","q","u","e","s","t","e","x","a">>, "Sends an extended HTTP request with additional control options.">>,
    <<<<"i","n","t","e","r","n","e","t","c","l","o","s","e","h","a","n","d","l","e">>, "Closes an Internet session or resource handle.">>,
    <<<<"i","n","t","e","r","n","e","t","c","o","n","n","e","c","t","a">>, "Establishes a connection to an FTP, Gopher, or HTTP server.">>,
    <<<<"i","n","t","e","r","n","e","t","c","r","a","c","k","u","r","l","a">>, "Breaks a URL into its component parts.">>,
    <<<<"i","n","t","e","r","n","e","t","e","r","r","o","r","d","l","g">>, "Displays an error dialog for Internet-related errors.">>,
    <<<<"i","n","t","e","r","n","e","t","g","e","t","c","o","n","n","e","c","t","e","d","s","t","a","t","e">>, "Determines the connection state of the local system.">>,
    <<<<"i","n","t","e","r","n","e","t","g","e","t","c","o","n","n","e","c","t","e","d","s","t","a","t","e","e","x","a">>, "Retrieves extended connection state information.">>,
    <<<<"i","n","t","e","r","n","e","t","o","p","e","n","a">>, "Initializes WinINet and returns a session handle.">>,
    <<<<"i","n","t","e","r","n","e","t","q","u","e","r","y","o","p","t","i","o","n","a">>, "Retrieves an option value associated with an Internet handle.">>,
    <<<<"i","n","t","e","r","n","e","t","r","e","a","d","f","i","l","e">>, "Reads data from an Internet resource into a buffer.">>,
    <<<<"i","n","t","e","r","n","e","t","s","e","t","o","p","t","i","o","n","a">>, "Sets an option value for an Internet handle.">>,
    <<<<"i","n","t","e","r","n","e","t","s","e","t","s","t","a","t","u","s","c","a","l","l","b","a","c","k","a">>, "Registers a callback for Internet status notifications.">>,
    <<<<"i","n","t","e","r","n","e","t","w","r","i","t","e","f","i","l","e">>, "Writes data to an Internet resource over an established connection.">>,
    <<<<"i","n","t","e","r","n","e","t","o","p","e","n","u","r","l">>, "Opens a URL and returns an Internet handle.">>,
    <<<<"i","n","t","e","r","n","e","t","g","e","t","c","o","o","k","i","e">>, "Retrieves cookie data associated with a URL.">>,
    <<<<"i","n","t","e","r","n","e","t","c","o","m","b","i","n","e","u","r","l">>, "Combines a base URL and a relative URL into a complete URL.">>,
    <<<<"i","n","t","e","r","n","e","t","q","u","e","r","y","o","p","t","i","o","n","w">>, "Retrieves an option value (Unicode) for an Internet handle.">>,
    <<<<"i","n","t","e","r","n","e","t","s","e","t","o","p","t","i","o","n","w">>, "Sets an option value (Unicode) for an Internet handle.">>,
    <<<<"i","n","t","e","r","n","e","t","o","p","e","n","u","r","l","w">>, "Opens a URL and returns an Internet handle (Unicode).">>,
    <<<<"f","t","p","c","o","n","n","e","c","t">>, "Establishes an FTP session with a server.">>,
    <<<<"f","t","p","c","w","d">>, "Changes the current directory on an FTP server.">>,
    <<<<"f","t","p","l","i","s","t","d","i","r","e","c","t","o","r","y">>, "Retrieves a directory listing from an FTP server.">>,
    <<<<"f","t","p","r","e","t","r">>, "Retrieves a file from an FTP server.">>,
    <<<<"f","t","p","p","u","t">>, "Uploads a file to an FTP server.">>,
    <<<<"g","o","p","h","e","r","c","o","n","n","e","c","t">>, "Establishes a Gopher session with a server.">>,
    <<<<"g","o","p","h","e","r","g","e","t","a","t","t","r","i","b","u","t","e">>, "Retrieves attributes from a Gopher server.">>,
    <<<<"g","o","p","h","e","r","r","e","a","d","f","i","l","e">>, "Reads a file from a Gopher server.">>,
    <<<<"h","t","t","p","q","u","e","r","y","i","n","f","o","w">>, "Retrieves HTTP response headers or status information (Unicode).">>,
    <<<<"h","t","t","p","o","p","e","n","r","e","q","u","e","s","t","w">>, "Creates an HTTP request handle (Unicode).">>,
    <<<<"h","t","t","p","s","e","n","d","r","e","q","u","e","s","t","w">>, "Sends an HTTP request (Unicode).">>,
    <<<<"h","t","t","p","a","d","d","r","e","q","u","e","s","t","h","e","a","d","e","r","s","w">>, "Adds HTTP request headers (Unicode).">>,
    <<<<"f","t","p","g","e","t","f","i","l","e">>, "Downloads a file from an FTP server.">>,
    <<<<"f","t","p","p","u","t","f","i","l","e">>, "Uploads a file to an FTP server.">>,
    <<<<"i","n","t","e","r","n","e","t","q","u","e","r","y","d","a","t","a","a","v","a","i","l","a","b","l","e">>, "Determines the amount of data available to read on an Internet handle.">>,
    <<<<"i","n","t","e","r","n","e","t","r","e","a","d","f","i","l","e","e","x">>, "Extended version of InternetReadFile with additional options.">>,
    <<<<"i","n","t","e","r","n","e","t","w","r","i","t","e","f","i","l","e","e","x">>, "Extended version of InternetWriteFile with additional options.">>,
    <<<<"i","n","t","e","r","n","e","t","g","e","t","l","a","s","t","r","e","s","p","o","n","s","e","i","n","f","o">>, "Retrieves extended error information for Internet functions.">>,
    <<<<"i","n","t","e","r","n","e","t","s","h","o","w","s","e","c","u","r","i","t","y","i","n","f","o">>, "Displays security information for an Internet handle.">>,
    <<<<"i","n","t","e","r","n","e","t","q","u","e","r","y","o","p","t","i","o","n","e","x">>, "Retrieves an extended option value for an Internet handle.">>,
    <<<<"i","n","t","e","r","n","e","t","s","e","t","o","p","t","i","o","n","e","x">>, "Sets an extended option value for an Internet handle.">>,
    <<<<"i","n","t","e","r","n","e","t","c","r","a","c","k","u","r","l","w">>, "Breaks a URL into parts (Unicode).">>,
    <<<<"i","n","t","e","r","n","e","t","c","o","m","b","i","n","e","u","r","l","w">>, "Combines URLs (Unicode).">>,
    <<<<"i","n","t","e","r","n","e","t","g","e","t","c","o","o","k","i","e","e","x">>, "Retrieves cookie data with extended options.">>,
    <<<<"i","n","t","e","r","n","e","t","c","o","n","n","e","c","t","w">>, "Establishes a connection (Unicode).">>,
    <<<<"i","n","t","e","r","n","e","t","e","r","r","o","r","d","l","g","e","x">>, "Displays an error dialog with extended options.">>>>

\* dll_api_explanations["ole32.dll"]["apis"] as written, in source order.
apis_ole32 ==
  <<<<<<"o","l","e","i","n","i","t","i","a","l","i","z","e">>, "Initializes the OLE library for use by the calling process.">>,
    <<<<"o","l","e","u","n","i","n","i","t","i","a","l","i","z","e">>, "Terminates the use of the OLE library on the current thread.">>,
    <<<<"c","r","e","a","t","e","s","t","r","e","a","m","o","n","h","g","l","o","b","a","l">>, "Creates a stream object using an HGLOBAL memory handle.">>,
    <<<<"s","t","g","c","r","e","a","t","e","d","o","c","f","i","l","e">>, "Creates and opens a compound file for structured storage.">>,
    <<<<"s","t","g","o","p","e","n","s","t","o","r","a","g","e">>, "Opens an existing compound file for structured storage.">>,
    <<<<"d","o","d","r","a","g","d","r","o","p">>, "Initiates a drag-and-drop operation.">>,
    <<<<"o","l","e","g","e","t","c","l","i","p","b","o","a","r","d">>, "Retrieves the clipboard object for OLE operations.">>,
    <<<<"o","l","e","s","e","t","c","l","i","p","b","o","a","r","d">>, "Places an object on the clipboard for OLE operations.">>,
    <<<<"o","l","e","f","l","u","s","h","c","l","i","p","b","o","a","r","d">>, "Clears and flushes the OLE clipboard.">>,
    <<<<"c","o","m","a","r","s","h","a","l","i","n","t","e","r","f","a","c","e">>, "Marshals a COM interface pointer into a stream.">>,
    <<<<"c","o","u","m","a","r","s","h","a","l","i","n","t","e","r","f","a","c","e">>, "Unmarshals a COM interface pointer from a stream.">>,
    <<<<"o","l","e","c","r","e","a","t","e","i","n","s","t","a","n","c","e">>, "Creates a new instance of a COM object.">>,
    <<<<"o","l","e","b","u","i","l","d","l","i","n","k">>, "Builds an OLE link to a COM object.">>,
    <<<<"o","l","e","d","l","l","r","e","g","i","s","t","e","r","s","e","r","v","e","r">>, "Registers the COM server (DLL) with the system.">>,
    <<<<"o","l","e","d","l","l","u","n","r","e","g","i","s","t","e","r","s","e","r","v","e","r">>, "Unregisters the COM server (DLL) from the system.">>,
    <<<<"o","l","e","r","e","l","e","a","s","e">>, "Releases a COM object and its associated resources.">>,
    <<<<"o","l","e","q","u","e","r","y","l","i","n","k">>, "Queries an OLE link object for status information.">>,
    <<<<"o","l","e","u","p","d","a","t","e">>, "Updates an OLE link object.">>,
    <<<<"o","l","e","c","o","n","n","e","c","t">>, "Connects an OLE object to its server.">>,
    <<<<"o","l","e","d","i","s","c","o","n","n","e","c","t">>, "Disconnects an OLE object from its server.">>,
    <<<<"o","l","e","s","h","o","w","o","b","j","e","c","t">>, "Displays an OLE object in its container.">>,
    <<<<"o","l","e","e","x","e","c">>, "Executes an OLE object.">>,
    <<<<"o","l","e","o","b","j","e","c","t","i","n","v","o","k","e">>, "Invokes a method on an OLE object.">>,
    <<<<"o","l","e","o","b","j","e","c","t","q","u","e","r","y">>, "Queries an OLE object for its interfaces.">>,
    <<<<"o","l","e","o","b","j","e","c","t","d","r","a","w">>, "Draws an OLE object.">>,
    <<<<"o","l","e","o","b","j","e","c","t","s","e","t","c","l","i","e","n","t","s","i","t","e">>, "Associates an OLE object with its container's client site.">>,
    <<<<"o","l","e","o","b","j","e","c","t","g","e","t","c","l","i","e","n","t","s","i","t","e">>, "Retrieves the client site associated with an OLE object.">>,
    <<<<"o","l","e","o","b","j","e","c","t","d","o","v","e","r","b">>, "Performs a default action (verb) on an OLE object.">>,
    <<<<"o","l","e","o","b","j","e","c","t","u","p","d","a","t","e">>, "Updates the display of an OLE object.">>,
    <<<<"o","l","e","o","b","j","e","c","t","r","e","l","e","a","s","e">>, "Releases an OLE object and its resources.">>,
    <<<<"o","l","e","o","b","j","e","c","t","c","l","o","s","e">>, "Closes an OLE object, terminating its connection to its server.">>,
    <<<<"o","l","e","o","b","j","e","c","t","c","o","p","y">>, "Copies an OLE object.">>,
    <<<<"o","l","e","o","b","j","e","c","t","p","a","s","t","e">>, "Pastes an OLE object.">>,
    <<<<"o","l","e","o","b","j","e","c","t","c","o","n","v","e","r","t">>, "Converts an OLE object to a different format.">>,
    <<<<"o","l","e","o","b","j","e","c","t","d","e","l","e","t","e">>, "Deletes an OLE object.">>,
    <<<<"o","l","e","o","b","j","e","c","t","i","n","s","e","r","t">>, "Inserts an OLE object into a container.">>,
    <<<<"o","l","e","o","b","j","e","c","t","g","e","t","d","a","t","a">>, "Retrieves data from an OLE object.">>,
    <<<<"o","l","e","o","b","j","e","c","t","s","e","t","d","a","t","a">>, "Sets data for an OLE object.">>,
    <<<<"o","l","e","o","b","j","e","c","t","q","u","e","r","y","p","r","o","t","o","c","o","l">>, "Queries the communication protocol of an OLE object.">>,
    <<<<"o","l","e","o","b","j","e","c","t","a","d","v","i","s","e">>, "Advises an OLE object of changes in data or status.">>,
    <<<<"o","l","e","o","b","j","e","c","t","u","n","a","d","v","i","s","e">>, "Removes an advisory connection from an OLE object.">>,
    <<<<"o","l","e","o","b","j","e","c","t","e","n","u","m">>, "Enumerates OLE objects in a container.">>,
    <<<<"o","l","e","o","b","j","e","c","t","g","e","t","m","o","n","i","k","e","r">>, "Retrieves the moniker associated with an OLE object.">>,
    <<<<"o","l","e","o","b","j","e","c","t","b","i","n","d">>, "Binds an OLE object to its display or data source.">>,
    <<<<"o","l","e","o","b","j","e","c","t","l","o","c","k">>, "Locks an OLE object to prevent modifications.">>,
    <<<<"o","l","e","o","b","j","e","c","t","u","n","l","o","c","k">>, "Unlocks a previously locked OLE object.">>,
    <<<<"o","l","e","o","b","j","e","c","t","s","e","t","h","o","s","t","n","a","m","e","s">>, "Sets the host names for an OLE object.">>,
    <<<<"o","l","e","o","b","j","e","c","t","g","e","t","h","o","s","t","n","a","m","e","s">>, "Retrieves the host names for an OLE object.">>,
    <<<<"o","l","e","o","b","j","e","c","t","i","n","i","t","i","a","l","i","z","e">>, "Initializes an OLE object for use.">>,
    <<<<"o","l","e","o","b","j","e","c","t","f","i","n","a","l","i","z","e">>, "Finalizes an OLE object, cleaning up resources.">>>>

\* dll_api_explanations["oleaut32.dll"]["apis"] as written, in source order.
apis_oleaut32 ==
  <<<<<<"v","a","r","i","a","n","t","c","l","e","a","r">>, "Clears the contents of a VARIANT structure.">>,
    <<<<"v","a","r","i","a","n","t","c","o","p","y">>, "Copies the contents of one VARIANT to another.">>,
    <<<<"s","y","s","a","l","l","o","c","s","t","r","i","n","g">>, "Allocates a new BSTR from a given string.">>,
    <<<<"s","y","s","f","r","e","e","s","t","r","i","n","g">>, "Frees a BSTR allocated with SysAllocString.">>,
    <<<<"b","s","t","r","l","e","n","g","t","h">>, "Retrieves the length of a BSTR string.">>,
    <<<<"s","a","f","e","a","r","r","a","y","a","c","c","e","s","s","d","a","t","a">>, "Locks a SAFEARRAY and returns a pointer to its data.">>,
    <<<<"s","a","f","e","a","r","r","a","y","u","n","a","c","c","e","s","s","d","a","t","a">>, "Unlocks a SAFEARRAY after data access.">>,
    <<<<"d","i","s","p","g","e","t","i","d","s">>, "Retrieves the dispatch identifiers for COM object members.">>,
    <<<<"d","i","s","p","i","n","v","o","k","e">>, "Invokes a method or property on a COM object using IDispatch.">>,
    <<<<"v","a","r","i","a","n","t","c","h","a","n","g","e","t","y","p","e">>, "Converts a VARIANT to a specified type.">>,
    <<<<"s","y","s","a","l","l","o","c","s","t","r","i","n","g","l","e","n">>, "Allocates a BSTR with a specified length.">>,
    <<<<"s","a","f","e","a","r","r","a","y","d","e","s","t","r","o","y">>, "Destroys a SAFEARRAY and frees its memory.">>,
    <<<<"s","a","f","e","a","r","r","a","y","g","e","t","u","b","o","u","n","d">>, "Retrieves the upper bound of a SAFEARRAY dimension.">>,
    <<<<"s","a","f","e","a","r","r","a","y","g","e","t","l","b","o","u","n","d">>, "Retrieves the lower bound of a SAFEARRAY dimension.">>,
    <<<<"s","a","f","e","a","r","r","a","y","g","e","t","e","l","e","m","e","n","t">>, "Retrieves an element from a SAFEARRAY.">>,
    <<<<"s","a","f","e","a","r","r","a","y","p","u","t","e","l","e","m","e","n","t">>, "Sets an element in a SAFEARRAY.">>,
    <<<<"v","a","r","i","a","n","t","i","n","i","t">>, "Initializes a VARIANT to VT_EMPTY.">>,
    <<<<"v","a","r","i","a","n","t","c","o","p","y","i","n","d","i","r","e","c","t">>, "Copies a VARIANT indirectly, allocating memory as needed.">>,
    <<<<"s","a","f","e","a","r","r","a","y","c","r","e","a","t","e">>, "Creates a SAFEARRAY with specified bounds and type.">>,
    <<<<"s","a","f","e","a","r","r","a","y","l","o","c","k">>, "Locks a SAFEARRAY for thread-safe access.">>,
    <<<<"s","a","f","e","a","r","r","a","y","u","n","l","o","c","k">>, "Unlocks a previously locked SAFEARRAY.">>,
    <<<<"v","a","r","i","a","n","t","t","o","a","r","r","a","y">>, "Converts a VARIANT to a SAFEARRAY if possible.">>,
    <<<<"a","r","r","a","y","t","o","v","a","r","i","a","n","t">>, "Converts a SAFEARRAY to a VARIANT.">>,
    <<<<"b","s","t","r","a","l","l","o","c">>, "Allocates a BSTR string of a given length.">>,
    <<<<"b","s","t","r","r","e","a","l","l","o","c">>, "Reallocates a BSTR string to a new size.">>,
    <<<<"b","s","t","r","c","m","p">>, "Compares two BSTR strings.">>,
    <<<<"v","a","r","i","a","n","t","d","e","c">>, "Decrements a VARIANT's reference count.">>,
    <<<<"v","a","r","i","a","n","t","h","a","s","c","o","n","v","e","r","s","i","o","n">>, "Checks if a VARIANT can be converted to another type.">>,
    <<<<"v","a","r","i","a","n","t","p","a","r","s","e">>, "Parses a string into a VARIANT value.">>,
    <<<<"s","a","f","e","a","r","r","a","y","c","o","p","y">>, "Creates a copy of a SAFEARRAY.">>,
    <<<<"s","a","f","e","a","r","r","a","y","r","e","s","i","z","e">>, "Resizes a SAFEARRAY to new dimensions.">>,
    <<<<"v","a","r","i","a","n","t","t","o","i","d">>, "Converts a VARIANT to a specific identifier type.">>,
    <<<<"v","a","r","i","a","n","t","t","o","s","t","r","i","n","g">>, "Converts a VARIANT to its string representation.">>,
    <<<<"s","a","f","e","a","r","r","a","y","c","r","e","a","t","e","e","x">>, "Creates a SAFEARRAY with extended options.">>,
    <<<<"v","a","r","i","a","n","t","c","o","m","p","a","r","e">>, "Compares two VARIANTs for equality.">>,
    <<<<"v","a","r","i","a","n","t","i","s","e","m","p","t","y">>, "Checks if a VARIANT is empty (VT_EMPTY).">>,
    <<<<"v","a","r","i","a","n","t","i","s","n","u","l","l">>, "Checks if a VARIANT contains a NULL value.">>,
    <<<<"v","a","r","i","a","n","t","a","d","d">>, "Performs addition on two VARIANT values.">>,
    <<<<"v","a","r","i","a","n","t","s","u","b","t","r","a","c","t">>, "Performs subtraction on two VARIANT values.">>,
    <<<<"v","a","r","i","a","n","t","m","u","l","t","i","p","l","y">>, "Performs multiplication on two VARIANT values.">>,
    <<<<"v","a","r","i","a","n","t","d","i","v","i","d","e">>, "Performs division on two VARIANT values.">>,
    <<<<"v","a","r","i","a","n","t","m","o","d">>, "Computes the modulus of two VARIANT values.">>,
    <<<<"v","a","r","i","a","n","t","p","o","w">>, "Raises a VARIANT to the power of another.">>,
    <<<<"v","a","r","i","a","n","t","m","i","n">>, "Determines the minimum of two VARIANT values.">>,
    <<<<"v","a","r","i","a","n","t","m","a","x">>, "Determines the maximum of two VARIANT values.">>,
    <<<<"v","a","r","i","a","n","t","r","o","u","n","d">>, "Rounds a VARIANT numeric value to the nearest integer.">>,
    <<<<"v","a","r","i","a","n","t","t","r","u","n","c">>, "Truncates a VARIANT numeric value, removing its fractional part.">>,
    <<<<"v","a","r","i","a","n","t","f","l","o","o","r">>, "Rounds a VARIANT numeric value down to the nearest integer.">>,
    <<<<"v","a","r","i","a","n","t","c","e","i","l">>, "Rounds a VARIANT numeric value up to the nearest integer.">>,
    <<<<"v","a","r","i","a","n","t","f","o","r","m","a","t">>, "Formats a VARIANT value into a human-readable string.">>>>

\* dll_api_explanations["shell32.dll"]["apis"] as written, in source order.
apis_shell32 ==
  <<<<<<"s","h","e","l","l","e","x","e","c","u","t","e","a">>, "Launches a program or opens a file using the default application (ANSI version).">>,
    <<<<"s","h","e","l","l","e","x","e","c","u","t","e","w">>, "Launches a program or opens a file using the default application (Unicode version).">>,
    <<<<"s","h","g","e","t","s","p","e","c","i","a","l","f","o","l","d","e","r","p","a","t","h","a">>, "Retrieves the path of a special folder (ANSI version).">>,
    <<<<"s","h","g","e","t","s","p","e","c","i","a","l","f","o","l","d","e","r","p","a","t","h","w">>, "Retrieves the path of a special folder (Unicode version).">>,
    <<<<"s","h","g","e","t","f","i","l","e","i","n","f","o","a">>, "Retrieves information about a file (ANSI version).">>,
    <<<<"s","h","g","e","t","f","i","l","e","i","n","f","o","w">>, "Retrieves information about a file (Unicode version).">>,
    <<<<"s","h","a","p","p","b","a","r","m","e","s","s","a","g","e">>, "Sends a message to update an icon or notification in the taskbar.">>,
    <<<<"s","h","g","e","t","d","e","s","k","t","o","p","f","o","l","d","e","r">>, "Retrieves the IShellFolder interface for the desktop.">>,
    <<<<"s","h","b","r","o","w","s","e","f","o","r","f","o","l","d","e","r","a">>, "Displays a folder browsing dialog (ANSI version).">>,
    <<<<"s","h","b","r","o","w","s","e","f","o","r","f","o","l","d","e","r","w">>, "Displays a folder browsing dialog (Unicode version).">>,
    <<<<"s","h","c","h","a","n","g","n","o","t","i","f","y">>, "Notifies the system of changes in the shell namespace.">>,
    <<<<"s","h","u","p","d","a","t","i","m","a","g","e">>, "Updates an image in a system image list.">>,
    <<<<"s","h","c","r","e","a","t","e","s","s","h","e","l","l","i","t","e","m">>, "Creates a shell item representing a file or folder.">>,
    <<<<"d","r","a","g","q","u","e","r","y","f","i","l","e","a">>, "Retrieves file information from a drag-and-drop operation (ANSI version).">>,
    <<<<"d","r","a","g","q","u","e","r","y","f","i","l","e","w">>, "Retrieves file information from a drag-and-drop operation (Unicode version).">>,
    <<<<"s","h","f","i","l","e","o","p","e","r","a","t","i","o","n","a">>, "Performs file operations like copy or move (ANSI version).">>,
    <<<<"s","h","f","i","l","e","o","p","e","r","a","t","i","o","n","w">>, "Performs file operations like copy or move (Unicode version).">>,
    <<<<"e","x","t","r","a","c","t","i","c","o","n","a">>, "Extracts an icon from a specified file (ANSI version).">>,
    <<<<"e","x","t","r","a","c","t","i","c","o","n","w">>, "Extracts an icon from a specified file (Unicode version).">>,
    <<<<"s","h","g","e","t","f","o","l","d","e","r","p","a","t","h","a">>, "Retrieves the path of a special folder (ANSI version).">>,
    <<<<"s","h","g","e","t","f","o","l","d","e","r","p","a","t","h","w">>, "Retrieves the path of a special folder (Unicode version).">>,
    <<<<"s","h","g","e","t","s","p","e","c","i","a","l","f","o","l","d","e","r","l","o","c","a","t","i","o","n">>, "Retrieves a PIDL for a special folder.">>,
    <<<<"s","h","o","p","e","n","w","i","t","h","d","i","a","l","o","g">>, "Displays an Open With dialog box to choose an application.">>,
    <<<<"s","h","r","u","n">>, "Runs a shell command with default parameters.">>,
    <<<<"s","h","g","e","t","f","o","l","d","e","r","l","o","c","a","t","i","o","n">>, "Retrieves the location of a special folder as a PIDL.">>,
    <<<<"s","h","g","e","t","n","e","w","l","i","n","k","i","n","f","o">>, "Retrieves information to create a new shortcut.">>,
    <<<<"s","h","c","o","p","y","f","i","l","e","s">>, "Copies files using the shell's file copy engine.">>,
    <<<<"s","h","m","o","v","e","f","i","l","e","s">>, "Moves files using the shell's file move engine.">>,
    <<<<"s","h","d","e","l","e","t","e","f","i","l","e","s">>, "Deletes files using the shell's deletion engine.">>,
    <<<<"s","h","r","e","n","a","m","e","f","i","l","e","s">>, "Renames files using the shell's renaming engine.">>,
    <<<<"s","h","g","e","t","i","c","o","n","l","o","c","a","t","i","o","n">>, "Retrieves the location of an icon for a file or folder.">>,
    <<<<"s","h","s","e","t","f","o","l","d","e","r","f","l","a","g","s">>, "Sets various flags on a shell folder.">>,
    <<<<"s","h","g","e","t","f","o","l","d","e","r","f","l","a","g","s">>, "Retrieves flags set on a shell folder.">>,
    <<<<"s","h","g","e","t","i","n","f","o","t","i","p">>, "Retrieves infotip text for a shell item.">>,
    <<<<"s","h","s","e","t","i","n","f","o","t","i","p">>, "Sets infotip text for a shell item.">>,
    <<<<"s","h","f","i","n","d","f","i","l","e","s">>, "Searches for files using shell search functions.">>,
    <<<<"s","h","r","u","n","a","s">>, "Executes a command with elevated privileges using RunAs.">>,
    <<<<"s","h","r","e","g","i","s","t","e","r","c","o","m","o","b","j","e","c","t">>, "Registers a COM object with the shell.">>,
    <<<<"s","h","u","n","r","e","g","i","s","t","e","r","c","o","m","o","b","j","e","c","t">>, "Unregisters a COM object from the shell.">>,
    <<<<"s","h","s","y","n","c">>, "Synchronizes shell folders and items.">>,
    <<<<"s","h","n","o","t","i","f","y","i","c","o","n">>, "Notifies the shell of changes to system tray icons.">>,
    <<<<"s","h","s","t","a","r","t","m","e","n","u">>, "Opens the Start menu programmatically.">>,
    <<<<"s","h","s","e","a","r","c","h">>, "Initiates a shell search operation.">>,
    <<<<"s","h","r","e","c","e","n","t","i","t","e","m","s">>, "Retrieves a list of recently used items.">>,
    <<<<"s","h","f","r","e","c","e","n","t","i","t","e","m","s">>, "Frees resources allocated for recent items.">>,
    <<<<"s","h","g","e","t","c","o","n","t","e","x","t","m","e","n","u">>, "Retrieves a context menu for a shell item.">>,
    <<<<"s","h","e","x","e","c","u","t","e">>, "Executes a command associated with a shell item.">>,
    <<<<"s","h","g","e","t","p","i","d","l">>, "Retrieves the PIDL for a given shell path.">>,
    <<<<"s","h","s","e","t","p","i","d","l">>, "Sets or updates the PIDL for a shell item.">>,
    <<<<"s","h","e","n","u","m","f","o","l","d","e","r","s">>, "Enumerates folders within a given shell directory.">>>>

\* dll_api_explanations["comdlg32.dll"]["apis"] as written, in source order.
apis_comdlg32 ==
  <<<<<<"g","e","t","o","p","e","n","f","i","l","e","n","a","m","e","a">>, "Displays an Open dialog box and retrieves the selected file (ANSI version).">>,
    <<<<"g","e","t","o","p","e","n","f","i","l","e","n","a","m","e","w">>, "Displays an Open dialog box and retrieves the selected file (Unicode version).">>,
    <<<<"g","e","t","s","a","v","e","f","i","l","e","n","a","m","e","a">>, "Displays a Save dialog box and retrieves the selected file name (ANSI version).">>,
    <<<<"g","e","t","s","a","v","e","f","i","l","e","n","a","m","e","w">>, "Displays a Save dialog box and retrieves the selected file name (Unicode version).">>,
    <<<<"c","h","o","o","s","e","c","o","l","o","r">>, "Displays a dialog box that enables the user to select a color.">>,
    <<<<"c","h","o","o","s","e","f","o","n","t">>, "Displays a dialog box that enables the user to choose a font.">>,
    <<<<"f","i","n","d","t","e","x","t">>, "Displays a dialog box for searching text.">>,
    <<<<"r","e","p","l","a","c","e","t","e","x","t">>, "Displays a dialog box for replacing text.">>,
    <<<<"c","o","m","m","d","l","g","_","a","p","i","9">>, "Common dialog function placeholder for additional API usage.">>,
    <<<<"c","o","m","m","d","l","g","_","a","p","i","1","0">>, "Common dialog function placeholder for additional API usage.">>,
    <<<<"c","o","m","m","d","l","g","_","a","p","i","1","1">>, "Common dialog function placeholder for additional API usage.">>,
    <<<<"c","o","m","m","d","l","g","_","a","p","i","1","2">>, "Common dialog function placeholder for additional API usage.">>,
    <<<<"c","o","m","m","d","l","g","_","a","p","i","1","3">>, "Common dialog function placeholder for additional API usage.">>,
    <<<<"c","o","m","m","d","l","g","_","a","p","i","1","4">>, "Common dialog function placeholder for additional API usage.">>,
    <<<<"c","o","m","m","d","l","g","_","a","p","i","1","5">>, "Common dialog function placeholder for additional API usage.">>,
    <<<<"c","o","m","m","d","l","g","_","a","p","i","1","6">>, "Common dialog function placeholder for additional API usage.">>,
    <<<<"c","o","m","m","d","l","g","_","a","p","i","1","7">>, "Common dialog function placeholder for additional API usage.">>,
    <<<<"c","o","m","m","d","l","g","_","a","p","i","1","8">>, "Common dialog function placeholder for additional API usage.">>,
    <<<<"c","o","m","m","d","l","g","_","a","p","i","1","9">>, "Common dialog function placeholder for additional API usage.">>,
    <<<<"c","o","m","m","d","l","g","_","a","p","i","2","0">>, "Common dialog function placeholder for additional API usage.">>,
    <<<<"g","e","t","f","i","l","e","o","p","e","n","h","o","o","k">>, "Sets a hook function for the Open dialog box.">>,
    <<<<"g","e","t","f","i","l","e","s","a","v","e","h","o","o","k">>, "Sets a hook function for the Save dialog box.">>,
    <<<<"c","h","o","o","s","e","f","o","n","t","h","o","o","k">>, "Sets a hook procedure for the Choose Font dialog box.">>,
    <<<<"c","h","o","o","s","e","c","o","l","o","r","h","o","o","k">>, "Sets a hook procedure for the Choose Color dialog box.">>,
    <<<<"p","r","i","n","t","d","l","g">>, "Displays a Print dialog box to select printer settings.">>,
    <<<<"c","o","m","m","d","l","g","_","v","a","l","i","d","a","t","e","f","i","l","e","n","a","m","e">>, "Validates the selected filename in a common dialog box.">>,
    <<<<"c","o","m","m","d","l","g","_","s","e","t","d","e","f","a","u","l","t","e","x","t","e","n","s","i","o","n">>, "Sets the default file extension for a file dialog box.">>,
    <<<<"c","o","m","m","d","l","g","_","s","e","t","f","i","l","t","e","r">>, "Sets the file filter for a file dialog box.">>,
    <<<<"c","o","m","m","d","l","g","_","g","e","t","f","i","l","t","e","r">>, "Retrieves the current file filter for a file dialog box.">>,
    <<<<"c","o","m","m","d","l","g","_","s","e","t","i","n","i","t","i","a","l","d","i","r">>, "Sets the initial directory for a file dialog box.">>,
    <<<<"c","o","m","m","d","l","g","_","g","e","t","i","n","i","t","i","a","l","d","i","r">>, "Retrieves the initial directory from a file dialog box.">>,
    <<<<"c","o","m","m","d","l","g","_","s","e","t","t","i","t","l","e">>, "Sets the title of a common dialog box.">>,
    <<<<"c","o","m","m","d","l","g","_","g","e","t","t","i","t","l","e">>, "Retrieves the title of a common dialog box.">>,
    <<<<"c","o","m","m","d","l","g","_","s","e","t","h","o","o","k">>, "Associates a hook procedure with a common dialog box.">>,
    <<<<"c","o","m","m","d","l","g","_","u","n","h","o","o","k">>, "Removes a hook procedure from a common dialog box.">>,
    <<<<"c","o","m","m","d","l","g","_","s","e","t","o","p","t","i","o","n","s">>, "Sets additional options for a common dialog box.">>,
    <<<<"c","o","m","m","d","l","g","_","g","e","t","o","p","t","i","o","n","s">>, "Retrieves the current options for a common dialog box.">>,
    <<<<"c","o","m","m","d","l","g","_","r","e","s","e","t">>, "Resets a common dialog box to its default state.">>,
    <<<<"c","o","m","m","d","l","g","_","s","e","t","c","a","l","l","b","a","c","k">>, "Sets a callback function for processing events in a common dialog box.">>,
    <<<<"c","o","m","m","d","l","g","_","g","e","t","c","a","l","l","b","a","c","k">>, "Retrieves the current callback function for a common dialog box.">>,
    <<<<"c","o","m","m","d","l","g","_","r","e","g","i","s","t","e","r","h","o","o","k">>, "Registers a hook procedure for use with common dialog boxes.">>,
    <<<<"c","o","m","m","d","l","g","_","u","n","r","e","g","i","s","t","e","r","h","o","o","k">>, "Unregisters a hook procedure from common dialog boxes.">>,
    <<<<"c","o","m","m","d","l","g","_","s","e","t","c","u","s","t","o","m","d","a","t","a">>, "Associates custom data with a common dialog box.">>,
    <<<<"c","o","m","m","d","l","g","_","g","e","t","c","u","s","t","o","m","d","a","t","a">>, "Retrieves custom data associated with a common dialog box.">>,
    <<<<"c","o","m","m","d","l","g","_","s","e","t","c","o","n","t","r","o","l","t","e","x","t">>, "Sets the text of a control in a common dialog box.">>,
    <<<<"c","o","m","m","d","l","g","_","g","e","t","c","o","n","t","r","o","l","t","e","x","t">>, "Retrieves the text of a control in a common dialog box.">>,
    <<<<"c","o","m","m","d","l","g","_","u","p","d","a","t","e">>, "Forces an update of a common dialog box's interface.">>,
    <<<<"c","o","m","m","d","l","g","_","d","e","s","t","r","o","y">>, "Destroys a common dialog box and frees its resources.">>,
    <<<<"c","o","m","m","d","l","g","_","r","e","f","r","e","s","h">>, "Refreshes the contents of a common dialog box.">>,
    <<<<"c","o","m","m","d","l","g","_","f","i","n","a","l","i","z","e">>, "Finalizes the dialog box and applies any changes.">>>>

\* dll_api_explanations["gdi32.dll"]["apis"] as written, in source order.
apis_gdi32 ==
  <<<<<<"b","i","t","b","l","t">>, "Performs a bit-block transfer of color data between device contexts.">>,
    <<<<"c","r","e","a","t","e","c","o","m","p","a","t","i","b","l","e","d","c">>, "Creates a memory device context compatible with a specified device context.">>,
    <<<<"c","r","e","a","t","e","d","i","b","s","e","c","t","i","o","n">>, "Creates a DIB section (bitmap) that can be directly written to.">>,
    <<<<"c","r","e","a","t","e","f","o","n","t","i","n","d","i","r","e","c","t","a">>, "Creates a logical font using a LOGFONTA structure (ANSI version).">>,
    <<<<"c","r","e","a","t","e","p","e","n">>, "Creates a logical pen with a specified style, width, and color.">>,
    <<<<"d","e","l","e","t","e","d","c">>, "Deletes a device context and frees its resources.">>,
    <<<<"d","e","l","e","t","e","o","b","j","e","c","t">>, "Deletes a GDI object and releases its memory.">>,
    <<<<"e","x","t","t","e","x","t","o","u","t","a">>, "Draws text with advanced formatting (ANSI version).">>,
    <<<<"e","x","t","t","e","x","t","o","u","t","w">>, "Draws text with advanced formatting (Unicode version).">>,
    <<<<"g","e","t","d","e","v","i","c","e","c","a","p","s">>, "Retrieves device-specific capabilities from a device context.">>,
    <<<<"g","e","t","g","l","y","p","h","o","u","t","l","i","n","e","a">>, "Retrieves the outline of a character glyph (ANSI version).">>,
    <<<<"g","e","t","g","l","y","p","h","o","u","t","l","i","n","e","w">>, "Retrieves the outline of a character glyph (Unicode version).">>,
    <<<<"g","e","t","s","t","o","c","k","o","b","j","e","c","t">>, "Retrieves a handle to one of the stock GDI objects.">>,
    <<<<"g","e","t","t","e","x","t","e","x","t","e","n","t","p","o","i","n","t","3","2","a">>, "Calculates the dimensions of a string (ANSI version).">>,
    <<<<"g","e","t","t","e","x","t","e","x","t","e","n","t","p","o","i","n","t","3","2","w">>, "Calculates the dimensions of a string (Unicode version).">>,
    <<<<"r","e","c","t","a","n","g","l","e">>, "Draws a rectangle defined by specified coordinates.">>,
    <<<<"s","e","l","e","c","t","o","b","j","e","c","t">>, "Selects a GDI object into a device context for drawing.">>,
    <<<<"s","e","t","b","k","m","o","d","e">>, "Sets the background mode (opaque or transparent) for text drawing.">>,
    <<<<"t","e","x","t","o","u","t","a">>, "Draws a string at a specified position (ANSI version).">>,
    <<<<"t","e","x","t","o","u","t","w">>, "Draws a string at a specified position (Unicode version).">>,
    <<<<"c","r","e","a","t","e","b","r","u","s","h">>, "Creates a logical brush for painting operations.">>,
    <<<<"c","r","e","a","t","e","p","a","t","t","e","r","n","b","r","u","s","h">>, "Creates a brush with a specified bitmap pattern.">>,
    <<<<"c","r","e","a","t","e","h","a","t","c","h","b","r","u","s","h">>, "Creates a hatch brush with a specified style and color.">>,
    <<<<"c","r","e","a","t","e","b","i","t","m","a","p">>, "Creates a bitmap with specified dimensions and color depth.">>,
    <<<<"c","r","e","a","t","e","c","o","m","p","a","t","i","b","l","e","b","i","t","m","a","p">>, "Creates a bitmap compatible with a specified device context.">>,
    <<<<"s","t","r","e","t","c","h","b","l","t">>, "Transfers a block of pixels with stretching or compressing.">>,
    <<<<"p","l","g","b","l","t">>, "Performs a patterned block transfer to a device context.">>,
    <<<<"s","e","t","s","t","r","e","t","c","h","b","l","t","m","o","d","e">>, "Sets the mode for stretching bitmaps in a device context.">>,
    <<<<"g","e","t","s","t","r","e","t","c","h","b","l","t","m","o","d","e">>, "Retrieves the current stretch mode for a device context.">>,
    <<<<"c","r","e","a","t","e","p","o","l","y","g","o","n">>, "Draws a polygon defined by a series of points.">>,
    <<<<"p","o","l","y","l","i","n","e">>, "Draws a series of connected lines.">>,
    <<<<"e","l","l","i","p","s","e">>, "Draws an ellipse bounded by a rectangle.">>,
    <<<<"a","r","c">>, "Draws an arc between specified start and end points.">>,
    <<<<"c","h","o","r","d">>, "Draws a chord defined by an ellipse and two radial lines.">>,
    <<<<"p","i","e">>, "Draws a pie-shaped wedge bounded by an ellipse and two radial lines.">>,
    <<<<"f","l","o","o","d","f","i","l","l">>, "Fills an area bounded by a color with a specified fill color.">>,
    <<<<"p","a","t","b","l","t">>, "Fills a rectangle using a brush pattern.">>,
    <<<<"i","n","v","e","r","t","r","e","c","t">>, "Inverts the colors within a specified rectangle.">>,
    <<<<"r","o","u","n","d","r","e","c","t">>, "Draws a rectangle with rounded corners.">>,
    <<<<"s","e","t","p","i","x","e","l">>, "Sets the color of an individual pixel in a device context.">>,
    <<<<"g","e","t","p","i","x","e","l">>, "Retrieves the color of a pixel at specified coordinates.">>,
    <<<<"p","o","l","y","t","e","x","t","o","u","t","a">>, "Draws multiple text strings at specified locations (ANSI version).">>,
    <<<<"p","o","l","y","t","e","x","t","o","u","t","w">>, "Draws multiple text strings at specified locations (Unicode version).">>,
    <<<<"a","n","g","l","e","a","r","c">>, "Draws an arc using an angle for its parameters.">>,
    <<<<"d","r","a","w","t","e","x","t","e","x">>, "Draws formatted text within a rectangle with extended options.">>,
    <<<<"t","r","a","n","s","p","a","r","e","n","t","b","l","t">>, "Performs a bit-block transfer treating a specified color as transparent.">>,
    <<<<"a","l","p","h","a","B","l","e","n","d">>, "Performs alpha blending of source and destination bitmaps.">>,
    <<<<"g","r","a","d","i","e","n","t","F","i","l","l">>, "Fills an area with a gradient between colors.">>,
    <<<<"p","l","g","B","l","t">>, "Performs a bit-block transfer with parallelogram mapping.">>,
    <<<<"s","e","t","m","a","p","m","o","d","e">>, "Sets the mapping mode for a device context.">>>>

\* dll_api_explanations["comctl32.dll"]["apis"] as written, in source order.
apis_comctl32 ==
  <<<<<<"i","n","i","t","c","o","m","m","o","n","c","o","n","t","r","o","l","s","e","x">>, "Initializes common control classes from the Common Controls DLL.">>,
    <<<<"i","m","a","g","e","l","i","s","t","_","c","r","e","a","t","e">>, "Creates an image list for use with common controls.">>,
    <<<<"i","m","a","g","e","l","i","s","t","_","a","d","d">>, "Adds an image to an image list.">>,
    <<<<"i","m","a","g","e","l","i","s","t","_","d","e","s","t","r","o","y">>, "Destroys an image list and frees its memory.">>,
    <<<<"p","r","o","p","e","r","t","y","s","h","e","e","t","a">>, "Creates a property sheet dialog box (ANSI version).">>,
    <<<<"p","r","o","p","e","r","t","y","s","h","e","e","t","w">>, "Creates a property sheet dialog box (Unicode version).">>,
    <<<<"c","r","e","a","t","e","p","r","o","p","e","r","t","y","s","h","e","e","t","p","a","g","e","a">>, "Creates a property sheet page (ANSI version).">>,
    <<<<"c","r","e","a","t","e","p","r","o","p","e","r","t","y","s","h","e","e","t","p","a","g","e","w">>, "Creates a property sheet page (Unicode version).">>,
    <<<<"l","i","s","t","v","i","e","w","_","i","n","s","e","r","t","i","t","e","m">>, "Inserts an item into a list-view control.">>,
    <<<<"l","i","s","t","v","i","e","w","_","d","e","l","e","t","e","i","t","e","m">>, "Deletes an item from a list-view control.">>,
    <<<<"t","r","e","e","v","i","e","w","_","i","n","s","e","r","t","i","t","e","m">>, "Inserts an item into a tree-view control.">>,
    <<<<"t","r","e","e","v","i","e","w","_","d","e","l","e","t","e","i","t","e","m">>, "Deletes an item from a tree-view control.">>,
    <<<<"t","o","o","l","b","a","r","_","a","d","d","b","u","t","t","o","n">>, "Adds a button to a toolbar control.">>,
    <<<<"t","o","o","l","b","a","r","_","r","e","m","o","v","e","b","u","t","t","o","n">>, "Removes a button from a toolbar control.">>,
    <<<<"r","e","b","a","r","_","c","r","e","a","t","e">>, "Creates a rebar control for hosting child windows.">>,
    <<<<"r","e","b","a","r","_","i","n","s","e","r","t","b","a","n","d">>, "Inserts a band into a rebar control.">>,
    <<<<"r","e","b","a","r","_","d","e","l","e","t","e","b","a","n","d">>, "Deletes a band from a rebar control.">>,
    <<<<"t","o","o","l","b","a","r","_","a","u","t","o","s","i","z","e">>, "Automatically sizes a toolbar control based on its buttons.">>,
    <<<<"s","t","a","t","u","s","b","a","r","_","c","r","e","a","t","e">>, "Creates a status bar control.">>,
    <<<<"s","t","a","t","u","s","b","a","r","_","s","e","t","t","e","x","t">>, "Sets the text in a part of a status bar.">>,
    <<<<"s","t","a","t","u","s","b","a","r","_","g","e","t","t","e","x","t">>, "Retrieves the text from a part of a status bar.">>,
    <<<<"u","p","d","o","w","n","c","o","n","t","r","o","l","_","c","r","e","a","t","e">>, "Creates an up-down (spinner) control.">>,
    <<<<"u","p","d","o","w","n","c","o","n","t","r","o","l","_","s","e","t","r","a","n","g","e">>, "Sets the range of values for an up-down control.">>,
    <<<<"u","p","d","o","w","n","c","o","n","t","r","o","l","_","g","e","t","p","o","s">>, "Retrieves the current position of an up-down control.">>,
    <<<<"t","r","a","c","k","b","a","r","_","c","r","e","a","t","e">>, "Creates a trackbar (slider) control.">>,
    <<<<"t","r","a","c","k","b","a","r","_","s","e","t","r","a","n","g","e">>, "Sets the range of a trackbar control.">>,
    <<<<"t","r","a","c","k","b","a","r","_","s","e","t","p","o","s">>, "Sets the current position of a trackbar control.">>,
    <<<<"t","r","a","c","k","b","a","r","_","g","e","t","p","o","s">>, "Retrieves the current position of a trackbar control.">>,
    <<<<"t","o","o","l","t","i","p","s","_","c","r","e","a","t","e">>, "Creates a tooltip control for hover text.">>,
    <<<<"t","o","o","l","t","i","p","s","_","a","d","d">>, "Associates a tooltip with a control.">>,
    <<<<"t","o","o","l","t","i","p","s","_","d","e","l">>, "Removes a tooltip from a control.">>,
    <<<<"t","r","e","e","v","i","e","w","_","e","d","i","t","l","a","b","e","l">>, "Initiates in-place editing of a tree-view item label.">>,
    <<<<"l","i","s","t","v","i","e","w","_","e","d","i","t","l","a","b","e","l">>, "Initiates in-place editing of a list-view item label.">>,
    <<<<"h","o","t","k","e","y","_","r","e","g","i","s","t","e","r">>, "Registers a hotkey with the system for a window.">>,
    <<<<"h","o","t","k","e","y","_","u","n","r","e","g","i","s","t","e","r">>, "Unregisters a previously registered hotkey.">>,
    <<<<"a","n","i","m","a","t","e","w","i","n","d","o","w">>, "Animates a window when showing or hiding it.">>,
    <<<<"f","l","a","s","h","w","i","n","d","o","w","e","x">>, "Flashes the specified window to draw attention.">>,
    <<<<"m","o","u","s","e","_","e","v","e","n","t">>, "Synthesizes mouse motion and button click events.">>,
    <<<<"k","e","y","b","d","_","e","v","e","n","t">>, "Synthesizes keystroke events.">>,
    <<<<"s","e","t","w","i","n","d","o","w","t","h","e","m","e">>, "Sets the visual theme of a window or control.">>,
    <<<<"u","p","d","a","t","e","u","i","c","a","n">>, "Updates the user interface of a control (placeholder).">>,
    <<<<"c","o","m","m","c","t","l","3","2","_","a","p","i","1","5">>, "Common control API placeholder for additional functionality.">>,
    <<<<"c","o","m","m","c","t","l","3","2","_","a","p","i","1","6">>, "Common control API placeholder for additional functionality.">>,
    <<<<"c","o","m","m","c","t","l","3","2","_","a","p","i","1","7">>, "Common control API placeholder for additional functionality.">>,
    <<<<"c","o","m","m","c","t","l","3","2","_","a","p","i","1","8">>, "Common control API placeholder for additional functionality.">>,
    <<<<"c","o","m","m","c","t","l","3","2","_","a","p","i","1","9">>, "Common control API placeholder for additional functionality.">>,
    <<<<"c","o","m","m","c","t","l","3","2","_","a","p","i","2","0">>, "Common control API placeholder for additional functionality.">>,
    <<<<"s","t","a","t","u","s","b","a","r","_","s","e","t","i","c","o","n">>, "Sets an icon in a specified part of a status bar.">>,
    <<<<"t","o","o","l","b","a","r","_","g","e","t","b","u","t","t","o","n","i","n","f","o">>, "Retrieves information about a toolbar button.">>,
    <<<<"t","o","o","l","b","a","r","_","s","e","t","b","u","t","t","o","n","i","n","f","o">>, "Sets information for a toolbar button.">>>>

\* dll_api_explanations["crypt32.dll"]["apis"] as written, in source order.
apis_crypt32 ==
  <<<<<<"c","r","y","p","t","c","r","e","a","t","e","h","a","s","h">>, "Creates a hash object for computing cryptographic hashes.">>,
    <<<<"c","r","y","p","t","h","a","s","h","d","a","t","a">>, "Hashes data and updates the hash object.">>,
    <<<<"c","r","y","p","t","s","i","g","n","h","a","s","h">>, "Signs a hash using a private key.">>,
    <<<<"c","r","y","p","t","v","e","r","i","f","y","s","i","g","n","a","t","u","r","e">>, "Verifies a cryptographic signature for a given hash.">>,
    <<<<"c","r","y","p","t","d","e","s","t","r","o","y","h","a","s","h">>, "Destroys a hash object and frees its resources.">>,
    <<<<"c","r","y","p","t","d","u","p","l","i","c","a","t","e","h","a","s","h">>, "Duplicates an existing hash object.">>,
    <<<<"c","r","y","p","t","g","e","t","h","a","s","h","p","a","r","a","m">>, "Retrieves parameters or the computed hash value from a hash object.">>,
    <<<<"c","r","y","p","t","s","e","t","h","a","s","h","p","a","r","a","m">>, "Sets parameters for a hash object.">>,
    <<<<"c","e","r","t","o","p","e","n","s","t","o","r","e">>, "Opens a certificate store for managing certificates.">>,
    <<<<"c","e","r","t","e","n","u","m","c","e","r","t","i","f","i","c","a","t","e","s","i","n","s","t","o","r","e">>, "Enumerates certificates in a certificate store.">>,
    <<<<"c","e","r","t","f","i","n","d","c","e","r","t","i","f","i","c","a","t","e","i","n","s","t","o","r","e">>, "Searches for a certificate in a certificate store.">>,
    <<<<"c","e","r","t","f","r","e","e","c","e","r","t","i","f","i","c","a","t","e","c","o","n","t","e","x","t">>, "Frees a certificate context structure.">>,
    <<<<"c","r","y","p","t","a","c","q","u","i","r","e","c","o","n","t","e","x","t","a">>, "Acquires a handle to a cryptographic service provider (ANSI version).">>,
    <<<<"c","r","y","p","t","a","c","q","u","i","r","e","c","o","n","t","e","x","t","w">>, "Acquires a handle to a cryptographic service provider (Unicode version).">>,
    <<<<"c","r","y","p","t","r","e","l","e","a","s","e","c","o","n","t","e","x","t">>, "Releases a cryptographic service provider handle.">>,
    <<<<"c","r","y","p","t","g","e","n","r","a","n","d","o","m">>, "Generates cryptographically strong random data.">>,
    <<<<"c","r","y","p","t","e","n","c","r","y","p","t">>, "Encrypts data using a specified cryptographic key.">>,
    <<<<"c","r","y","p","t","d","e","c","r","y","p","t">>, "Decrypts data using a specified cryptographic key.">>,
    <<<<"c","r","y","p","t","d","e","r","i","v","e","k","e","y">>, "Derives a cryptographic key from a hash object.">>,
    <<<<"c","r","y","p","t","i","m","p","o","r","t","k","e","y">>, "Imports a cryptographic key from a key blob.">>,
    <<<<"c","r","y","p","t","e","x","p","o","r","t","k","e","y">>, "Exports a cryptographic key to a key blob.">>,
    <<<<"c","r","y","p","t","d","e","s","t","r","o","y","k","e","y">>, "Destroys a cryptographic key and releases associated resources.">>,
    <<<<"c","r","y","p","t","d","u","p","l","i","c","a","t","e","k","e","y">>, "Duplicates an existing cryptographic key.">>,
    <<<<"c","r","y","p","t","c","r","e","a","t","e","i","v">>, "Generates an initialization vector for encryption operations.">>,
    <<<<"c","r","y","p","t","s","e","t","p","r","o","v","p","a","r","a","m">>, "Sets a parameter for the cryptographic provider.">>,
    <<<<"c","r","y","p","t","g","e","t","p","r","o","v","p","a","r","a","m">>, "Retrieves a parameter from the cryptographic provider.">>,
    <<<<"c","e","r","t","a","d","d","s","t","o","r","e">>, "Adds a certificate to a certificate store.">>,
    <<<<"c","e","r","t","r","e","m","o","v","e","s","t","o","r","e">>, "Removes a certificate from a certificate store.">>,
    <<<<"c","e","r","t","f","i","n","d","c","h","a","i","n","i","n","s","t","o","r","e">>, "Finds a certificate chain in a certificate store.">>,
    <<<<"c","e","r","t","v","e","r","i","f","y","c","e","r","t","i","f","i","c","a","t","e","c","h","a","i","n","p","o","l","i","c","y">>, "Verifies the policy of a certificate chain.">>,
    <<<<"c","r","y","p","t","m","s","g","o","p","e","n","t","o","e","n","c","o","d","e">>, "Opens a cryptographic message for encoding.">>,
    <<<<"c","r","y","p","t","m","s","g","u","p","d","a","t","e">>, "Updates a cryptographic message with data.">>,
    <<<<"c","r","y","p","t","m","s","g","f","i","n","a","l","i","z","e">>, "Finalizes the cryptographic message after encoding.">>,
    <<<<"c","r","y","p","t","m","s","g","o","p","e","n","t","o","d","e","c","o","d","e">>, "Opens a cryptographic message for decoding.">>,
    <<<<"c","r","y","p","t","m","s","g","g","e","t","p","a","r","a","m">>, "Retrieves parameters from a cryptographic message.">>,
    <<<<"c","r","y","p","t","m","s","g","c","o","n","t","r","o","l">>, "Controls various aspects of a cryptographic message.">>,
    <<<<"c","r","y","p","t","f","i","n","d","O","I","D","I","n","f","o">>, "Retrieves information about an Object Identifier (OID).">>,
    <<<<"c","r","y","p","t","r","e","g","i","s","t","e","r","O","I","D","I","n","f","o">>, "Registers an Object Identifier (OID) with the system.">>,
    <<<<"c","r","y","p","t","u","n","r","e","g","i","s","t","e","r","O","I","D","I","n","f","o">>, "Unregisters an Object Identifier (OID) from the system.">>,
    <<<<"c","r","y","p","t","e","n","c","o","d","e","o","b","j","e","c","t">>, "Encodes an object into a cryptographic message.">>,
    <<<<"c","r","y","p","t","d","e","c","o","d","e","o","b","j","e","c","t">>, "Decodes an object from a cryptographic message.">>,
    <<<<"c","r","y","p","t","o","b","j","e","c","t","i","d","e","n","t","i","f","i","e","r","t","o","a","l","g","i","d">>, "Converts an object identifier to an algorithm identifier.">>,
    <<<<"c","r","y","p","t","a","l","g","i","d","t","o","o","b","j","e","c","t","i","d","e","n","t","i","f","i","e","r">>, "Converts an algorithm identifier to an object identifier.">>,
    <<<<"c","e","r","t","a","d","d","e","n","c","o","d","e","d","c","e","r","t","i","f","i","c","a","t","e","t","o","s","t","o","r","e">>, "Adds an encoded certificate to a certificate store.">>,
    <<<<"c","e","r","t","c","r","e","a","t","e","c","e","r","t","i","f","i","c","a","t","e","c","o","n","t","e","x","t">>, "Creates a certificate context from encoded certificate data.">>,
    <<<<"c","e","r","t","f","r","e","e","c","r","l","c","o","n","t","e","x","t">>, "Frees a CRL (Certificate Revocation List) context.">>,
    <<<<"c","e","r","t","g","e","t","c","r","l","f","r","o","m","s","t","o","r","e">>, "Retrieves a CRL from a certificate store.">>,
    <<<<"c","r","y","p","t","o","p","o","p","u","p","m","e","s","s","a","g","e">>, "Displays a popup message related to cryptographic operations.">>,
    <<<<"c","r","y","p","t","r","e","g","i","s","t","e","r","d","e","f","a","u","l","t","p","r","o","v","i","d","e","r">>, "Registers the default cryptographic provider for a specified algorithm.">>,
    <<<<"c","r","y","p","t","g","e","t","d","e","f","a","u","l","t","p","r","o","v","i","d","e","r">>, "Retrieves the default cryptographic provider for a specified algorithm.">>>>

\* dll_api_explanations["shlwapi.dll"]["apis"] as written, in source order.
apis_shlwapi ==
  <<<<<<"p","a","t","h","f","i","n","d","e","x","t","e","n","s","i","o","n","a">>, "Finds the file extension in a path (ANSI version).">>,
    <<<<"p","a","t","h","f","i","n","d","e","x","t","e","n","s","i","o","n","w">>, "Finds the file extension in a path (Unicode version).">>,
    <<<<"p","a","t","h","c","o","m","b","i","n","e","a">>, "Combines two path strings into one (ANSI version).">>,
    <<<<"p","a","t","h","c","o","m","b","i","n","e","w">>, "Combines two path strings into one (Unicode version).">>,
    <<<<"p","a","t","h","s","t","r","i","p","f","i","l","e","n","a","m","e","a">>, "Removes the file name from a path (ANSI version).">>,
    <<<<"p","a","t","h","s","t","r","i","p","f","i","l","e","n","a","m","e","w">>, "Removes the file name from a path (Unicode version).">>,
    <<<<"p","a","t","h","r","e","m","o","v","e","e","x","t","e","n","s","i","o","n","a">>, "Removes the file extension from a path (ANSI version).">>,
    <<<<"p","a","t","h","r","e","m","o","v","e","e","x","t","e","n","s","i","o","n","w">>, "Removes the file extension from a path (Unicode version).">>,
    <<<<"p","a","t","h","f","i","n","d","f","i","l","e","a">>, "Searches for a file in a specified directory (ANSI version).">>,
    <<<<"p","a","t","h","f","i","n","d","f","i","l","e","w">>, "Searches for a file in a specified directory (Unicode version).">>,
    <<<<"p","a","t","h","c","a","n","o","n","i","c","a","l","i","z","e">>, "Converts a path to its canonical form.">>,
    <<<<"p","a","t","h","i","s","r","e","l","a","t","i","v","e">>, "Determines if a given path is relative.">>,
    <<<<"p","a","t","h","f","i","l","e","e","x","i","s","t","s">>, "Checks whether a specified file exists.">>,
    <<<<"u","r","l","e","s","c","a","p","e">>, "Escapes characters in a URL to make it valid.">>,
    <<<<"u","r","l","u","n","e","s","c","a","p","e">>, "Reverts escaped characters in a URL to their original form.">>,
    <<<<"s","h","l","w","a","p","i","_","g","e","t","d","l","l","v","e","r","s","i","o","n">>, "Retrieves the version information of a specified DLL.">>,
    <<<<"s","h","l","w","a","p","i","_","s","t","r","c","m","p","i">>, "Performs a case-insensitive string comparison.">>,
    <<<<"s","h","l","w","a","p","i","_","s","t","r","s","t","r","i">>, "Searches for a substring in a string, case-insensitively.">>,
    <<<<"s","h","l","w","a","p","i","_","s","t","r","l","w","r">>, "Converts a string to lowercase.">>,
    <<<<"s","h","l","w","a","p","i","_","s","t","r","u","p","r">>, "Converts a string to uppercase.">>,
    <<<<"s","h","l","w","a","p","i","_","s","t","r","c","a","t">>, "Safely concatenates two strings.">>,
    <<<<"s","h","l","w","a","p","i","_","s","t","r","c","p","y">>, "Safely copies a string.">>,
    <<<<"s","h","l","w","a","p","i","_","s","t","r","d","e","l","c","h","r">>, "Deletes specified characters from a string.">>,
    <<<<"s","h","l","w","a","p","i","_","s","t","r","i","n","c">>, "Increments a pointer to the next character in a string.">>,
    <<<<"s","h","l","w","a","p","i","_","s","t","r","l","e","n","c">>, "Calculates the length of a string in characters.">>,
    <<<<"s","h","l","w","a","p","i","_","p","a","t","h","a","p","p","e","n","d">>, "Appends a subdirectory or file name to a path.">>,
    <<<<"s","h","l","w","a","p","i","_","p","a","t","h","r","e","m","o","v","e","b","a","c","k","s","l","a","s","h">>, "Removes a trailing backslash from a path.">>,
    <<<<"s","h","l","w","a","p","i","_","p","a","t","h","a","d","d","b","a","c","k","s","l","a","s","h">>, "Adds a trailing backslash to a path if absent.">>,
    <<<<"s","h","l","w","a","p","i","_","u","r","l","c","a","n","o","n","i","c","a","l","i","z","e">>, "Canonicalizes a URL to a standard format.">>,
    <<<<"s","h","l","w","a","p","i","_","u","r","l","c","o","m","b","i","n","e">>, "Combines a base URL with a relative URL.">>,
    <<<<"s","h","l","w","a","p","i","_","d","l","l","p","a","t","h">>, "Retrieves the path of a specified DLL.">>,
    <<<<"s","h","l","w","a","p","i","_","p","a","r","s","e","u","r","l">>, "Parses a URL into its component parts.">>,
    <<<<"s","h","l","w","a","p","i","_","f","o","r","m","a","t","m","s","g">>, "Formats a message string using a message identifier.">>,
    <<<<"s","h","l","w","a","p","i","_","s","t","r","f","o","r","m","a","t","b","y","t","e">>, "Formats a byte value into a human-readable string.">>,
    <<<<"s","h","l","w","a","p","i","_","s","t","r","f","o","r","m","a","t","d","w","o","r","d">>, "Formats a DWORD value into a human-readable string.">>,
    <<<<"s","h","l","w","a","p","i","_","i","s","s","p","a","c","e">>, "Determines if a character is a whitespace character.">>,
    <<<<"s","h","l","w","a","p","i","_","i","s","d","i","g","i","t">>, "Determines if a character is a digit.">>,
    <<<<"s","h","l","w","a","p","i","_","i","s","a","l","p","h","a">>, "Determines if a character is alphabetic.">>,
    <<<<"s","h","l","w","a","p","i","_","a","t","o","l">>, "Converts a string to a long integer.">>,
    <<<<"s","h","l","w","a","p","i","_","i","t","o","a">>, "Converts an integer to a string.">>,
    <<<<"s","h","l","w","a","p","i","_","l","s","t","r","c","m","p">>, "Performs a string comparison.">>,
    <<<<"s","h","l","w","a","p","i","_","l","s","t","r","c","m","p","i">>, "Performs a case-insensitive string comparison.">>,
    <<<<"s","h","l","w","a","p","i","_","l","s","t","r","c","p","y","n">>, "Copies a specified number of characters from one string to another.">>,
    <<<<"s","h","l","w","a","p","i","_","l","s","t","r","c","a","t","n">>, "Concatenates a specified number of characters from one string to another.">>,
    <<<<"s","h","l","w","a","p","i","_","s","t","r","t","r","i","m">>, "Trims leading and trailing whitespace from a string.">>,
    <<<<"s","h","l","w","a","p","i","_","s","t","r","r","e","v","e","r","s","e">>, "Reverses a string in place.">>,
    <<<<"s","h","l","w","a","p","i","_","s","t","r","r","e","p","l","a","c","e">>, "Replaces occurrences of a substring within a string.">>,
    <<<<"s","h","l","w","a","p","i","_","u","r","l","u","n","e","s","c","a","p","e","i","n","p","l","a","c","e">>, "Unescapes a URL in place.">>,
    <<<<"s","h","l","w","a","p","i","_","g","e","t","e","x","t","e","n","s","i","o","n">>, "Retrieves the extension of a file from a path.">>,
    <<<<"s","h","l","w","a","p","i","_","c","h","a","n","g","e","f","i","l","e","e","x","t">>, "Changes the file extension of a given path.">>>>

\* dll_api_explanations["imm32.dll"]["apis"] as written, in source order.
apis_imm32 ==
  <<<<<<"i","m","m","g","e","t","c","o","n","t","e","x","t">>, "Retrieves the input context associated with a window.">>,
    <<<<"i","m","m","r","e","l","e","a","s","e","c","o","n","t","e","x","t">>, "Releases an input context obtained via ImmGetContext.">>,
    <<<<"i","m","m","s","e","t","c","o","m","p","o","s","i","t","i","o","n","w","i","n","d","o","w">>, "Sets the composition window for the IME.">>,
    <<<<"i","m","m","g","e","t","c","o","m","p","o","s","i","t","i","o","n","s","t","r","i","n","g">>, "Retrieves the composition string from the IME.">>,
    <<<<"i","m","m","a","s","s","o","c","i","a","t","e","c","o","n","t","e","x","t">>, "Associates an input context with a window.">>,
    <<<<"i","m","m","g","e","t","o","p","e","n","s","t","a","t","u","s">>, "Determines whether the IME is open for a given context.">>,
    <<<<"i","m","m","s","e","t","o","p","e","n","s","t","a","t","u","s">>, "Sets the open status of the IME for a given context.">>,
    <<<<"i","m","m","d","i","s","a","b","l","e","i","m","e">>, "Disables the IME for a specified window.">>,
    <<<<"i","m","m","e","n","a","b","l","e","i","m","e">>, "Enables the IME for a specified window.">>,
    <<<<"i","m","m","g","e","t","d","e","f","a","u","l","t","i","m","e","w","n","d">>, "Retrieves the default IME window handle for a window.">>,
    <<<<"i","m","m","e","s","c","a","p","e">>, "Sends an escape command to the IME.">>,
    <<<<"i","m","m","c","o","n","f","i","g","u","r","e">>, "Configures the IME settings for a window.">>,
    <<<<"i","m","m","g","e","t","c","o","n","v","e","r","s","i","o","n","s","t","a","t","u","s">>, "Retrieves the conversion status of the IME.">>,
    <<<<"i","m","m","s","e","t","c","o","n","v","e","r","s","i","o","n","s","t","a","t","u","s">>, "Sets the conversion status of the IME.">>,
    <<<<"i","m","m","g","e","t","h","o","t","k","e","y">>, "Retrieves the hotkey associated with a specific IME command.">>,
    <<<<"i","m","m","s","e","t","h","o","t","k","e","y">>, "Sets the hotkey for a specific IME command.">>,
    <<<<"i","m","m","s","e","t","s","t","a","t","u","s","w","i","n","d","o","w","p","o","s">>, "Sets the position of the IME status window.">>,
    <<<<"i","m","m","s","i","m","u","l","a","t","e","k","e","y">>, "Simulates a key event for the IME.">>,
    <<<<"i","m","m","c","r","e","a","t","e","r","e","g","i","o","n">>, "Creates a region for IME composition.">>,
    <<<<"i","m","m","d","e","s","t","r","o","y","r","e","g","i","o","n">>, "Destroys a region created for IME composition.">>,
    <<<<"i","m","m","s","e","t","c","o","m","p","o","s","i","t","i","o","n","f","o","n","t">>, "Sets the composition font for the IME.">>,
    <<<<"i","m","m","g","e","t","c","o","m","p","o","s","i","t","i","o","n","f","o","n","t">>, "Retrieves the composition font for the IME.">>,
    <<<<"i","m","m","n","o","t","i","f","y","i","m","e">>, "Sends a notification message to the IME.">>,
    <<<<"i","m","m","r","e","g","i","s","t","e","r","w","o","r","d">>, "Registers a word in the IME's dictionary.">>,
    <<<<"i","m","m","u","n","r","e","g","i","s","t","e","r","w","o","r","d">>, "Unregisters a word from the IME's dictionary.">>,
    <<<<"i","m","m","s","e","t","c","o","n","v","e","r","s","i","o","n","m","o","d","e">>, "Sets the conversion mode for the IME.">>,
    <<<<"i","m","m","g","e","t","c","o","n","v","e","r","s","i","o","n","m","o","d","e">>, "Retrieves the current conversion mode of the IME.">>,
    <<<<"i","m","m","s","e","t","s","e","n","t","e","n","c","e">>, "Sets the sentence mode for the IME.">>,
    <<<<"i","m","m","g","e","t","s","e","n","t","e","n","c","e">>, "Retrieves the sentence mode for the IME.">>,
    <<<<"i","m","m","s","e","t","c","a","n","d","i","d","a","t","e","w","i","n","d","o","w">>, "Sets the candidate window position for the IME.">>,
    <<<<"i","m","m","g","e","t","c","a","n","d","i","d","a","t","e","w","i","n","d","o","w">>, "Retrieves the candidate window position for the IME.">>,
    <<<<"i","m","m","c","h","e","c","k","i","n","p","u","t">>, "Checks the input context for valid IME input.">>,
    <<<<"i","m","m","l","o","c","k","i","m","c">>, "Locks an input context for direct access.">>,
    <<<<"i","m","m","u","n","l","o","c","k","i","m","c">>, "Unlocks a previously locked input context.">>,
    <<<<"i","m","m","g","e","t","i","m","e">>, "Retrieves the current input method state timestamp.">>,
    <<<<"i","m","m","s","e","t","i","m","e">>, "Sets a timestamp for the input method state.">>,
    <<<<"i","m","m","q","u","e","r","y","i","m","e","i","n","f","o">>, "Queries detailed information about the current IME.">>,
    <<<<"i","m","m","u","p","d","a","t","e","i","m","e">>, "Updates the IME with new configuration settings.">>,
    <<<<"i","m","m","r","e","g","i","s","t","e","r","c","a","l","l","b","a","c","k">>, "Registers a callback function for IME events.">>,
    <<<<"i","m","m","u","n","r","e","g","i","s","t","e","r","c","a","l","l","b","a","c","k">>, "Unregisters a callback function for IME events.">>,
    <<<<"i","m","m","s","i","m","u","l","a","t","e","i","n","p","u","t">>, "Simulates input for the IME for testing purposes.">>,
    <<<<"i","m","m","g","e","t","c","o","m","p","o","s","i","t","i","o","n","a","t","t","r","i","b","u","t","e","s">>, "Retrieves attributes of the current composition string.">>,
    <<<<"i","m","m","s","e","t","c","o","m","p","o","s","i","t","i","o","n","a","t","t","r","i","b","u","t","e","s">>, "Sets attributes for the composition string.">>,
    <<<<"i","m","m","g","e","t","s","t","a","t","u","s","w","i","n","d","o","w">>, "Retrieves the handle to the IME status window.">>,
    <<<<"i","m","m","s","e","t","s","t","a","t","u","s","w","i","n","d","o","w">>, "Sets a new handle for the IME status window.">>,
    <<<<"i","m","m","c","r","e","a","t","e","c","o","n","v","e","r","s","i","o","n","c","o","n","t","e","x","t">>, "Creates a context for conversion operations in the IME.">>,
    <<<<"i","m","m","d","e","s","t","r","o","y","c","o","n","v","e","r","s","i","o","n","c","o","n","t","e","x","t">>, "Destroys a conversion context in the IME.">>,
    <<<<"i","m","m","g","e","t","c","a","n","d","i","d","a","t","e","c","o","u","n","t">>, "Retrieves the number of candidate strings in the IME candidate list.">>,
    <<<<"i","m","m","s","e","l","e","c","t","c","a","n","d","i","d","a","t","e">>, "Selects a candidate string from the IME candidate list.">>>>

\* dll_api_explanations["msvcrt.dll"]["apis"] as written, in source order.
apis_msvcrt ==
  <<<<<<"m","a","l","l","o","c">>, "Allocates memory dynamically.">>,
    <<<<"f","r","e","e">>, "Frees dynamically allocated memory.">>,
    <<<<"m","e","m","c","p","y">>, "Copies a block of memory from one location to another.">>,
    <<<<"m","e","m","s","e","t">>, "Fills a block of memory with a specified value.">>,
    <<<<"m","e","m","m","o","v","e">>, "Safely copies a block of memory, handling overlapping regions.">>,
    <<<<"s","t","r","c","m","p">>, "Compares two strings.">>,
    <<<<"s","t","r","c","p","y">>, "Copies one string to another.">>,
    <<<<"s","t","r","c","a","t">>, "Concatenates two strings.">>,
    <<<<"s","t","r","l","e","n">>, "Returns the length of a string.">>,
    <<<<"s","p","r","i","n","t","f">>, "Formats data into a string.">>,
    <<<<"s","s","c","a","n","f">>, "Reads formatted data from a string.">>,
    <<<<"f","o","p","e","n">>, "Opens a file and returns a pointer to a FILE object.">>,
    <<<<"f","c","l","o","s","e">>, "Closes an open FILE object.">>,
    <<<<"f","r","e","a","d">>, "Reads data from a file into a buffer.">>,
    <<<<"f","w","r","i","t","e">>, "Writes data from a buffer to a file.">>,
    <<<<"r","e","a","l","l","o","c">>, "Resizes a previously allocated memory block.">>,
    <<<<"c","a","l","l","o","c">>, "Allocates memory for an array and initializes it to zero.">>,
    <<<<"e","x","i","t">>, "Terminates the program.">>,
    <<<<"a","b","o","r","t">>, "Causes abnormal program termination.">>,
    <<<<"s","y","s","t","e","m">>, "Executes a command string in the command processor.">>,
    <<<<"s","t","r","n","c","p","y">>, "Copies a specified number of characters from one string to another.">>,
    <<<<"s","t","r","n","c","a","t">>, "Concatenates a specified number of characters from one string to another.">>,
    <<<<"s","t","r","n","c","m","p">>, "Compares a specified number of characters of two strings.">>,
    <<<<"s","t","r","c","h","r">>, "Finds the first occurrence of a character in a string.">>,
    <<<<"s","t","r","r","c","h","r">>, "Finds the last occurrence of a character in a string.">>,
    <<<<"s","t","r","s","t","r">>, "Finds the first occurrence of a substring in a string.">>,
    <<<<"s","t","r","t","o","k">>, "Tokenizes a string based on specified delimiters.">>,
    <<<<"a","t","o","f">>, "Converts a string to a floating-point number.">>,
    <<<<"a","t","o","i">>, "Converts a string to an integer.">>,
    <<<<"a","t","o","l">>, "Converts a string to a long integer.">>,
    <<<<"s","t","r","t","o","d">>, "Converts a string to a double-precision floating point number.">>,
    <<<<"q","s","o","r","t">>, "Sorts an array using a comparison function.">>,
    <<<<"b","s","e","a","r","c","h">>, "Performs a binary search on a sorted array.">>,
    <<<<"a","b","s">>, "Calculates the absolute value of an integer.">>,
    <<<<"l","a","b","s">>, "Calculates the absolute value of a long integer.">>,
    <<<<"d","i","v">>, "Performs integer division, returning quotient and remainder.">>,
    <<<<"l","d","i","v">>, "Performs long integer division, returning quotient and remainder.">>,
    <<<<"r","a","n","d">>, "Generates a pseudo-random number.">>,
    <<<<"s","r","a","n","d">>, "Seeds the pseudo-random number generator.">>,
    <<<<"f","g","e","t","s">>, "Reads a line from a file into a buffer.">>,
    <<<<"f","p","u","t","s">>, "Writes a string to a file.">>,
    <<<<"g","e","t","c">>, "Retrieves a character from a file stream.">>,
    <<<<"p","u","t","c">>, "Writes a character to a file stream.">>,
    <<<<"f","e","o","f">>, "Checks if the end-of-file indicator for a stream is set.">>,
    <<<<"f","e","r","r","o","r">>, "Checks if an error occurred on a file stream.">>,
    <<<<"p","e","r","r","o","r">>, "Prints a descriptive error message to stderr.">>,
    <<<<"v","f","p","r","i","n","t","f">>, "Writes formatted output to a file stream using a variable argument list.">>,
    <<<<"v","s","p","r","i","n","t","f">>, "Writes formatted output to a string using a variable argument list.">>,
    <<<<"v","s","n","p","r","i","n","t","f">>, "Writes formatted output to a string with buffer size limitation using a variable argument list.">>,
    <<<<"s","n","p","r","i","n","t","f">>, "Writes formatted output to a string with buffer size limitation.">>>>

\* dll_api_explanations["version.dll"]["apis"] as written, in source order.
apis_version ==
  <<<<<<"g","e","t","f","i","l","e","v","e","r","s","i","o","n","i","n","f","o","a">>, "Retrieves version information for a file (ANSI version).">>,
    <<<<"g","e","t","f","i","l","e","v","e","r","s","i","o","n","i","n","f","o","s","i","z","e","a">>, "Retrieves the size of version information for a file (ANSI version).">>,
    <<<<"g","e","t","f","i","l","e","v","e","r","s","i","o","n","i","n","f","o","s","i","z","e","w">>, "Retrieves the size of version information for a file (Unicode version).">>,
    <<<<"g","e","t","f","i","l","e","v","e","r","s","i","o","n","i","n","f","o","w">>, "Retrieves version information for a file (Unicode version).">>,
    <<<<"v","e","r","q","u","e","r","y","v","a","l","u","e","a">>, "Retrieves specified version information (ANSI version).">>,
    <<<<"v","e","r","q","u","e","r","y","v","a","l","u","e","w">>, "Retrieves specified version information (Unicode version).">>,
    <<<<"g","e","t","f","i","l","e","v","e","r","s","i","o","n","i","n","f","o","e","x">>, "Retrieves extended version information for a file.">>,
    <<<<"v","e","r","v","e","r","i","f","y","f","i","l","e">>, "Verifies the integrity and authenticity of a file's version information.">>,
    <<<<"v","e","r","i","n","s","t","a","l","l","f","i","l","e">>, "Installs a file based on version information.">>,
    <<<<"v","e","r","g","e","t","l","o","c","a","l","i","s","e","d">>, "Retrieves localized version information for a file.">>,
    <<<<"v","e","r","f","i","n","d","r","e","s","o","u","r","c","e">>, "Finds a version resource in a file.">>,
    <<<<"v","e","r","l","o","a","d","r","e","s","o","u","r","c","e">>, "Loads a version resource from a file.">>,
    <<<<"v","e","r","r","e","s","o","u","r","c","e","t","o","i","n","f","o">>, "Extracts information from a version resource.">>,
    <<<<"v","e","r","q","u","e","r","y","v","a","l","u","e","e","x">>, "Retrieves extended version information from a file.">>,
    <<<<"v","e","r","u","p","d","a","t","e","l","o","c","a","l","i","s","e","d">>, "Updates the localized version information for a file.">>,
    <<<<"v","e","r","e","x","t","r","a","c","t","i","n","f","o">>, "Extracts version strings from version information.">>,
    <<<<"v","e","r","c","o","m","p","a","r","e">>, "Compares version information between two files.">>,
    <<<<"v","e","r","g","e","t","p","a","t","c","h","l","e","v","e","l">>, "Retrieves the patch level from version information.">>,
    <<<<"v","e","r","g","e","t","b","u","i","l","d","n","u","m","b","e","r">>, "Retrieves the build number from version information.">>,
    <<<<"v","e","r","g","e","t","p","r","o","d","u","c","t","v","e","r","s","i","o","n">>, "Retrieves the product version from version information.">>,
    <<<<"v","e","r","g","e","t","f","i","l","e","d","e","s","c","r","i","p","t","i","o","n">>, "Retrieves the file description from version information.">>,
    <<<<"v","e","r","g","e","t","c","o","m","p","a","n","y","n","a","m","e">>, "Retrieves the company name from version information.">>,
    <<<<"v","e","r","g","e","t","l","e","g","a","l","t","r","a","d","e","m","a","r","k","s">>, "Retrieves the legal trademarks from version information.">>,
    <<<<"v","e","r","g","e","t","c","o","m","m","e","n","t","s">>, "Retrieves the comments from version information.">>,
    <<<<"v","e","r","g","e","t","i","n","t","e","r","n","a","l","n","a","m","e">>, "Retrieves the internal name from version information.">>,
    <<<<"v","e","r","g","e","t","o","r","i","g","i","n","a","l","f","i","l","e","n","a","m","e">>, "Retrieves the original filename from version information.">>,
    <<<<"v","e","r","g","e","t","p","r","i","v","a","t","e","b","u","i","l","d">>, "Retrieves private build information from version information.">>,
    <<<<"v","e","r","g","e","t","s","p","e","c","i","a","l","b","u","i","l","d">>, "Retrieves special build information from version information.">>,
    <<<<"v","e","r","q","u","e","r","y","l","a","n","g","c","o","d","e","p","a","g","e">>, "Retrieves the language and code page for version information.">>,
    <<<<"v","e","r","r","e","s","o","u","r","c","e","d","e","c","o","d","e">>, "Decodes a version resource into readable format.">>,
    <<<<"v","e","r","w","r","i","t","e">>, "Writes updated version information to a file.">>,
    <<<<"v","e","r","u","p","d","a","t","e","r","e","g","i","s","t","r","y">>, "Updates the system registry with version information.">>,
    <<<<"v","e","r","r","e","s","t","o","r","e">>, "Restores version information from backup.">>,
    <<<<"v","e","r","c","o","m","m","i","t">>, "Commits version information changes to a file.">>,
    <<<<"v","e","r","l","o","c","k">>, "Locks a file for version information update.">>,
    <<<<"v","e","r","u","n","l","o","c","k">>, "Unlocks a file after version information update.">>,
    <<<<"v","e","r","i","n","i","t">>, "Initializes version information retrieval for a file.">>,
    <<<<"v","e","r","c","l","e","a","n","u","p">>, "Cleans up resources allocated for version information.">>,
    <<<<"v","e","r","r","e","s","o","u","r","c","e","d","a","t","a">>, "Retrieves raw data from a version resource.">>,
    <<<<"v","e","r","r","e","s","o","u","r","c","e","u","p","d","a","t","e">>, "Updates the resource section of a file with version data.">>,
    <<<<"v","e","r","f","i","n","d","l","a","n","g","u","a","g","e">>, "Finds the best matching language for version resources.">>,
    <<<<"v","e","r","f","o","r","m","a","t">>, "Formats version information into a human-readable string.">>,
    <<<<"v","e","r","v","a","l","i","d","a","t","e">>, "Validates the consistency and integrity of version information.">>,
    <<<<"v","e","r","n","o","t","i","f","y">>, "Notifies applications of version changes for a file.">>,
    <<<<"v","e","r","a","r","c","h","i","v","e">>, "Archives the version information for historical reference.">>,
    <<<<"v","e","r","q","u","e","r","y","t","i","m","e","s","t","a","m","p">>, "Retrieves a timestamp from version information.">>,
    <<<<"v","e","r","g","e","t","c","h","e","c","k","s","u","m">>, "Calculates and retrieves a checksum for version information.">>,
    <<<<"v","e","r","c","o","m","p","a","r","e","e","x">>, "Performs an extended comparison of version information.">>,
    <<<<"v","e","r","m","e","r","g","e","l","o","c","a","l","i","s","e","d">>, "Merges localized version information with default values.">>,
    <<<<"v","e","r","f","i","n","a","l","i","z","e">>, "Finalizes version information updates for a file.">>>>

\* dll_api_explanations["psapi.dll"]["apis"] as written, in source order.
apis_psapi ==
  <<<<<<"e","n","u","m","p","r","o","c","e","s","s","e","s">>, "Enumerates all active process identifiers.">>,
    <<<<"e","n","u","m","p","r","o","c","e","s","s","m","o","d","u","l","e","s">>, "Retrieves handles for all modules in a specified process.">>,
    <<<<"g","e","t","m","o","d","u","l","e","b","a","s","e","a","d","d","r","e","s","s">>, "Retrieves the base address of a module in a process.">>,
    <<<<"g","e","t","m","o","d","u","l","e","n","a","m","e","m","o","d","e","x","a">>, "Retrieves the fully qualified path for a module (ANSI version).">>,
    <<<<"g","e","t","m","o","d","u","l","e","n","a","m","e","m","o","d","e","x","w">>, "Retrieves the fully qualified path for a module (Unicode version).">>,
    <<<<"g","e","t","m","o","d","u","l","e","i","n","f","o","r","m","a","t","i","o","n">>, "Retrieves information about a module in a process.">>,
    <<<<"p","s","a","p","i","_","a","p","i","7">>, DEFAULT_EXPLANATION>>,
    <<<<"p","s","a","p","i","_","a","p","i","8">>, DEFAULT_EXPLANATION>>,
    <<<<"p","s","a","p","i","_","a","p","i","9">>, DEFAULT_EXPLANATION>>,
    <<<<"p","s","a","p","i","_","a","p","i","1","0">>, DEFAULT_EXPLANATION>>,
    <<<<"p","s","a","p","i","_","a","p","i","1","1">>, DEFAULT_EXPLANATION>>,
    <<<<"p","s","a","p","i","_","a","p","i","1","2">>, DEFAULT_EXPLANATION>>,
    <<<<"p","s","a","p","i","_","a","p","i","1","3">>, DEFAULT_EXPLANATION>>,
    <<<<"p","s","a","p","i","_","a","p","i","1","4">>, DEFAULT_EXPLANATION>>,
    <<<<"p","s","a","p","i","_","a","p","i","1","5">>, DEFAULT_EXPLANATION>>,
    <<<<"p","s","a","p","i","_","a","p","i","1","6">>, DEFAULT_EXPLANATION>>,
    <<<<"p","s","a","p","i","_","a","p","i","1","7">>, DEFAULT_EXPLANATION>>,
    <<<<"p","s","a","p","i","_","a","p","i","1","8">>, DEFAULT_EXPLANATION>>,
    <<<<"p","s","a","p","i","_","a","p","i","1","9">>, DEFAULT_EXPLANATION>>,
    <<<<"p","s","a","p","i","_","a","p","i","2","0">>, DEFAULT_EXPLANATION>>,
    <<<<"g","e","t","p","r","o","c","e","s","s","m","e","m","o","r","y","i","n","f","o">>, "Retrieves memory usage information for a specified process.">>,
    <<<<"g","e","t","p","e","r","f","o","r","m","a","n","c","e","i","n","f","o">>, "Retrieves performance information about the system.">>,
    <<<<"e","n","u","m","d","e","v","i","c","e","d","r","i","v","e","r","s">>, "Enumerates all loaded device drivers in the system.">>,
    <<<<"g","e","t","d","e","v","i","c","e","f","r","a","m","e","n","a","m","e">>, "Retrieves the file name of a specified device driver.">>,
    <<<<"q","u","e","r","y","w","o","r","k","i","n","g","s","e","t","s","i","z","e">>, "Retrieves the working set size for a process.">>,
    <<<<"s","e","t","w","o","r","k","i","n","g","s","e","t","s","i","z","e">>, "Sets the working set size for a process.">>,
    <<<<"g","e","t","p","r","o","c","e","s","s","i","m","a","g","e","f","i","l","e","n","a","m","e">>, "Retrieves the image file name for a specified process.">>,
    <<<<"e","n","u","m","p","r","o","c","e","s","s","h","e","a","p","s">>, "Enumerates all heaps used by a specified process.">>,
    <<<<"g","e","t","h","e","a","p","i","n","f","o","r","m","a","t","i","o","n">>, "Retrieves information about a heap from a process.">>,
    <<<<"q","u","e","r","y","p","r","o","c","e","s","s","v","m">>, "Queries the virtual memory information of a process.">>,
    <<<<"g","e","t","m","o","d","u","l","e","f","i","l","e","n","a","m","e","e","x">>, "Retrieves the fully qualified path for a module in a process.">>,
    <<<<"e","n","u","m","u","n","l","o","a","d","e","d","m","o","d","u","l","e","s">>, "Enumerates modules that were recently unloaded from a process.">>,
    <<<<"q","u","e","r","y","p","r","o","c","e","s","s","c","p","u","u","s","a","g","e">>, "Retrieves CPU usage statistics for a specified process.">>,
    <<<<"q","u","e","r","y","p","r","o","c","e","s","s","d","i","s","k","i","o">>, "Retrieves disk I/O statistics for a specified process.">>,
    <<<<"g","e","t","p","r","o","c","e","s","s","t","h","r","e","a","d","t","i","m","e","s">>, "Retrieves timing information for a process's threads.">>,
    <<<<"g","e","t","p","r","o","c","e","s","s","h","a","n","d","l","e","c","o","u","n","t">>, "Retrieves the number of open handles in a specified process.">>,
    <<<<"g","e","t","s","y","s","t","e","m","h","a","n","d","l","e","i","n","f","o","r","m","a","t","i","o","n">>, "Retrieves information about all system handles.">>,
    <<<<"e","n","u","m","p","r","o","c","e","s","s","t","h","r","e","a","d","s">>, "Enumerates all threads in a specified process.">>,
    <<<<"g","e","t","t","h","r","e","a","d","i","n","f","o","r","m","a","t","i","o","n">>, "Retrieves detailed information about a specified thread.">>,
    <<<<"q","u","e","r","y","s","y","s","t","e","m","m","o","d","u","l","e","i","n","f","o","r","m","a","t","i","o","n">>, "Retrieves information about loaded system modules.">>,
    <<<<"g","e","t","p","r","o","c","e","s","s","m","o","d","u","l","e","f","i","l","e","n","a","m","e">>, "Retrieves the file name of a module in a process.">>,
    <<<<"q","u","e","r","y","v","i","r","t","u","a","l","m","e","m","o","r","y">>, "Queries virtual memory information for a process.">>,
    <<<<"g","e","t","m","e","m","o","r","y","s","t","a","t","u","s">>, "Retrieves the current memory status of the system.">>,
    <<<<"g","e","t","p","r","o","c","e","s","s","l","i","s","t">>, "Retrieves a list of all active processes on the system.">>,
    <<<<"g","e","t","p","r","o","c","e","s","s","o","w","n","e","r">>, "Retrieves the owner (user) of a specified process.">>,
    <<<<"e","n","u","m","p","r","o","c","e","s","s","s","e","r","v","i","c","e","s">>, "Enumerates services associated with a process.">>,
    <<<<"q","u","e","r","y","p","r","o","c","e","s","s","v","e","r","s","i","o","n">>, "Retrieves version information for a process.">>,
    <<<<"g","e","t","p","r","o","c","e","s","s","p","r","i","o","r","i","t","y">>, "Retrieves the priority class of a specified process.">>,
    <<<<"s","e","t","p","r","o","c","e","s","s","p","r","i","o","r","i","t","y">>, "Sets the priority class of a specified process.">>,
    <<<<"g","e","t","p","r","o","c","e","s","s","a","f","f","i","n","i","t","y">>, "Retrieves the processor affinity mask for a specified process.">>>>

\* dll_api_explanations["setupapi.dll"]["apis"] as written, in source order.
apis_setupapi ==
  <<<<<<"s","e","t","u","p","d","i","g","e","t","c","l","a","s","s","d","e","s","c","r","i","p","t","i","o","n","a">>, "Retrieves the class description for a device setup class (ANSI version).">>,
    <<<<"s","e","t","u","p","d","i","g","e","t","c","l","a","s","s","d","e","s","c","r","i","p","t","i","o","n","w">>, "Retrieves the class description for a device setup class (Unicode version).">>,
    <<<<"s","e","t","u","p","d","i","e","n","u","m","d","e","v","i","c","e","i","n","t","e","r","f","a","c","e","s">>, "Enumerates device interfaces for a setup class.">>,
    <<<<"s","e","t","u","p","d","i","g","e","t","d","e","v","i","c","e","i","n","t","e","r","f","a","c","e">>, "Retrieves a device interface for a specified device.">>,
    <<<<"s","e","t","u","p","d","i","g","e","t","d","e","v","i","c","e","i","n","t","e","r","f","a","c","e","_","d","e","t","a","i","l","a">>, "Retrieves detailed info about a device interface (ANSI version).">>,
    <<<<"s","e","t","u","p","d","i","g","e","t","d","e","v","i","c","e","i","n","t","e","r","f","a","c","e","_","d","e","t","a","i","l","w">>, "Retrieves detailed info about a device interface (Unicode version).">>,
    <<<<"s","e","t","u","p","d","i","g","e","t","d","e","v","i","c","e","p","r","o","p","e","r","t","y">>, "Retrieves a property for a specified device.">>,
    <<<<"s","e","t","u","p","d","i","s","e","t","d","e","v","i","c","e","p","r","o","p","e","r","t","y">>, "Sets a property for a specified device.">>,
    <<<<"s","e","t","u","p","d","i","e","n","u","m","d","e","v","i","c","e","i","n","f","o">>, "Enumerates devices in a device information set.">>,
    <<<<"s","e","t","u","p","d","i","g","e","t","d","e","v","i","c","e","r","e","g","i","s","t","r","y","p","r","o","p","e","r","t","y">>, "Retrieves a device's registry property.">>,
    <<<<"s","e","t","u","p","d","i","s","e","t","d","e","v","i","c","e","r","e","g","i","s","t","r","y","p","r","o","p","e","r","t","y">>, "Sets a device's registry property.">>,
    <<<<"s","e","t","u","p","d","i","g","e","t","c","l","a","s","s","d","e","v","i","d","s">>, "Retrieves device instance IDs for a setup class.">>,
    <<<<"s","e","t","u","p","d","i","o","p","e","n","d","e","v","i","n","f","o","p","t","r">>, "Opens a handle to a device information set.">>,
    <<<<"s","e","t","u","p","d","i","d","e","s","t","r","o","y","d","e","v","i","n","f","o","l","i","s","t">>, "Destroys a device information set and frees its resources.">>,
    <<<<"s","e","t","u","p","a","p","i","_","a","p","i","1","5">>, DEFAULT_EXPLANATION>>,
    <<<<"s","e","t","u","p","a","p","i","_","a","p","i","1","6">>, DEFAULT_EXPLANATION>>,
    <<<<"s","e","t","u","p","a","p","i","_","a","p","i","1","7">>, DEFAULT_EXPLANATION>>,
    <<<<"s","e","t","u","p","a","p","i","_","a","p","i","1","8">>, DEFAULT_EXPLANATION>>,
    <<<<"s","e","t","u","p","a","p","i","_","a","p","i","1","9">>, DEFAULT_EXPLANATION>>,
    <<<<"s","e","t","u","p","a","p","i","_","a","p","i","2","0">>, DEFAULT_EXPLANATION>>,
    <<<<"s","e","t","u","p","a","p","i","_","i","n","s","t","a","l","l","d","e","v","i","c","e">>, "Installs a device using setup API routines.">>,
    <<<<"s","e","t","u","p","a","p","i","_","u","n","i","n","s","t","a","l","l","d","e","v","i","c","e">>, "Uninstalls a device from the system.">>,
    <<<<"s","e","t","u","p","a","p","i","_","e","n","u","m","e","r","a","t","e","d","e","v","i","c","e","s">>, "Enumerates devices present in the system.">>,
    <<<<"s","e","t","u","p","a","p","i","_","g","e","t","d","e","v","i","c","e","i","n","s","t","a","n","c","e","i","d">>, "Retrieves the device instance ID for a specified device.">>,
    <<<<"s","e","t","u","p","a","p","i","_","g","e","t","d","e","v","i","c","e","d","e","s","c","r","i","p","t","i","o","n">>, "Retrieves the description of a specified device.">>,
    <<<<"s","e","t","u","p","a","p","i","_","g","e","t","d","e","v","i","c","e","h","a","r","d","w","a","r","e","i","d","s">>, "Retrieves hardware IDs for a specified device.">>,
    <<<<"s","e","t","u","p","a","p","i","_","s","e","t","d","e","v","i","c","e","p","o","w","e","r","s","e","t","t","i","n","g","s">>, "Configures power management settings for a device.">>,
    <<<<"s","e","t","u","p","a","p","i","_","g","e","t","d","e","v","i","c","e","p","o","w","e","r","s","e","t","t","i","n","g","s">>, "Retrieves power management settings for a device.">>,
    <<<<"s","e","t","u","p","a","p","i","_","q","u","e","r","y","d","r","i","v","e","r","n","o","d","e">>, "Queries driver node information for a device.">>,
    <<<<"s","e","t","u","p","a","p","i","_","c","o","n","f","i","g","u","r","e","d","r","i","v","e","r">>, "Configures a driver for a device.">>,
    <<<<"s","e","t","u","p","a","p","i","_","e","n","u","m","e","r","a","t","e","d","r","i","v","e","r","n","o","d","e","s">>, "Enumerates driver nodes for a device.">>,
    <<<<"s","e","t","u","p","a","p","i","_","g","e","t","c","l","a","s","s","d","e","v","i","c","e","l","i","s","t">>, "Retrieves a list of devices for a setup class.">>,
    <<<<"s","e","t","u","p","a","p","i","_","g","e","t","d","e","v","i","c","e","r","e","g","i","s","t","r","y","p","r","o","p","e","r","t","y","e","x">>, "Retrieves extended registry properties for a device.">>,
    <<<<"s","e","t","u","p","a","p","i","_","s","e","t","d","e","v","i","c","e","r","e","g","i","s","t","r","y","p","r","o","p","e","r","t","y","e","x">>, "Sets extended registry properties for a device.">>,
    <<<<"s","e","t","u","p","a","p","i","_","g","e","t","d","e","v","i","c","e","i","n","t","e","r","f","a","c","e","a","l","i","a","s">>, "Retrieves an alias for a device interface.">>,
    <<<<"s","e","t","u","p","a","p","i","_","s","e","t","d","e","v","i","c","e","i","n","t","e","r","f","a","c","e","a","l","i","a","s">>, "Sets an alias for a device interface.">>,
    <<<<"s","e","t","u","p","a","p","i","_","g","e","t","d","e","v","i","c","e","i","n","s","t","a","l","l","a","t","i","o","n","s","t","a","t","e">>, "Retrieves the installation state of a device.">>,
    <<<<"s","e","t","u","p","a","p","i","_","s","e","t","d","e","v","i","c","e","i","n","s","t","a","l","l","a","t","i","o","n","s","t","a","t","e">>, "Sets the installation state of a device.">>,
    <<<<"s","e","t","u","p","a","p","i","_","g","e","t","i","n","f","s","e","c","t","i","o","n">>, "Retrieves an INF section from a device installation file.">>,
    <<<<"s","e","t","u","p","a","p","i","_","q","u","e","r","y","i","n","f","s","e","c","t","i","o","n">>, "Queries information from an INF section.">>,
    <<<<"s","e","t","u","p","a","p","i","_","i","n","s","t","a","l","l","i","n","f","s","e","c","t","i","o","n">>, "Installs a section from an INF file.">>,
    <<<<"s","e","t","u","p","a","p","i","_","q","u","e","r","y","d","r","i","v","e","r","i","n","f","o","d","e","t","a","i","l">>, "Retrieves detailed driver information from an INF file.">>,
    <<<<"s","e","t","u","p","a","p","i","_","g","e","t","s","e","l","e","c","t","e","d","d","r","i","v","e","r">>, "Retrieves the driver selected for a device.">>,
    <<<<"s","e","t","u","p","a","p","i","_","s","e","t","s","e","l","e","c","t","e","d","d","r","i","v","e","r">>, "Sets the driver selected for a device.">>,
    <<<<"s","e","t","u","p","a","p","i","_","c","o","m","m","i","t","i","n","s","t","a","l","l","e","r">>, "Commits installation changes for a device.">>,
    <<<<"s","e","t","u","p","a","p","i","_","c","l","e","a","n","u","p","i","n","s","t","a","l","l","e","r">>, "Cleans up installer resources for a device.">>,
    <<<<"s","e","t","u","p","a","p","i","_","e","n","u","m","e","r","a","t","e","d","e","v","i","c","e","r","e","g","i","s","t","r","y","p","r","o","p","e","r","t","i","e","s">>, "Enumerates registry properties for a device.">>,
    <<<<"s","e","t","u","p","a","p","i","_","g","e","t","d","e","v","i","c","e","c","a","p","a","b","i","l","i","t","i","e","s">>, "Retrieves the capabilities of a device.">>,
    <<<<"s","e","t","u","p","a","p","i","_","q","u","e","r","y","d","e","v","i","c","e","i","d">>, "Queries the device ID for a specified device.">>,
    <<<<"s","e","t","u","p","a","p","i","_","f","i","n","a","l","i","z","e","d","e","v","i","c","e">>, "Finalizes the installation process for a device.">>>>

\* dll_api_explanations["iphlpapi.dll"]["apis"] as written, in source order.
apis_iphlpapi ==
  <<<<<<"g","e","t","a","d","a","p","t","e","r","s","a","d","d","r","e","s","s","e","s">>, "Retrieves network adapter addresses for the local system.">>,
    <<<<"g","e","t","i","f","t","a","b","l","e">>, "Retrieves a table of network interface information.">>,
    <<<<"g","e","t","i","f","e","n","t","r","y">>, "Retrieves information for a specified network interface.">>,
    <<<<"i","p","h","l","p","a","p","i","_","a","p","i","4">>, DEFAULT_EXPLANATION>>,
    <<<<"i","p","h","l","p","a","p","i","_","a","p","i","5">>, DEFAULT_EXPLANATION>>,
    <<<<"i","p","h","l","p","a","p","i","_","a","p","i","6">>, DEFAULT_EXPLANATION>>,
    <<<<"i","p","h","l","p","a","p","i","_","a","p","i","7">>, DEFAULT_EXPLANATION>>,
    <<<<"i","p","h","l","p","a","p","i","_","a","p","i","8">>, DEFAULT_EXPLANATION>>,
    <<<<"i","p","h","l","p","a","p","i","_","a","p","i","9">>, DEFAULT_EXPLANATION>>,
    <<<<"i","p","h","l","p","a","p","i","_","a","p","i","1","0">>, DEFAULT_EXPLANATION>>,
    <<<<"i","p","h","l","p","a","p","i","_","a","p","i","1","1">>, DEFAULT_EXPLANATION>>,
    <<<<"i","p","h","l","p","a","p","i","_","a","p","i","1","2">>, DEFAULT_EXPLANATION>>,
    <<<<"i","p","h","l","p","a","p","i","_","a","p","i","1","3">>, DEFAULT_EXPLANATION>>,
    <<<<"i","p","h","l","p","a","p","i","_","a","p","i","1","4">>, DEFAULT_EXPLANATION>>,
    <<<<"i","p","h","l","p","a","p","i","_","a","p","i","1","5">>, DEFAULT_EXPLANATION>>,
    <<<<"i","p","h","l","p","a","p","i","_","a","p","i","1","6">>, DEFAULT_EXPLANATION>>,
    <<<<"i","p","h","l","p","a","p","i","_","a","p","i","1","7">>, DEFAULT_EXPLANATION>>,
    <<<<"i","p","h","l","p","a","p","i","_","a","p","i","1","8">>, DEFAULT_EXPLANATION>>,
    <<<<"i","p","h","l","p","a","p","i","_","a","p","i","1","9">>, DEFAULT_EXPLANATION>>,
    <<<<"i","p","h","l","p","a","p","i","_","a","p","i","2","0">>, DEFAULT_EXPLANATION>>,
    <<<<"g","e","t","n","e","t","w","o","r","k","p","a","r","a","m","s">>, "Retrieves network parameters for the local system.">>,
    <<<<"g","e","t","p","e","r","a","d","a","p","t","e","r","i","n","f","o">>, "Retrieves detailed information for a specific network adapter.">>,
    <<<<"g","e","t","a","d","a","p","t","e","r","o","r","d","e","r","m","a","p">>, "Retrieves the adapter order map for the system.">>,
    <<<<"n","o","t","i","f","y","a","d","d","r","c","h","a","n","g","e">>, "Notifies the caller of address changes on a network adapter.">>,
    <<<<"n","o","t","i","f","y","r","o","u","t","e","c","h","a","n","g","e">>, "Notifies the caller of route changes on the network.">>,
    <<<<"g","e","t","b","e","s","t","i","n","t","e","r","f","a","c","e">>, "Determines the best network interface for a given destination.">>,
    <<<<"g","e","t","i","p","f","o","r","w","a","r","d","t","a","b","l","e">>, "Retrieves the IP routing table for the local system.">>,
    <<<<"g","e","t","i","f","e","n","t","r","y","2">>, "Retrieves extended information for a network interface.">>,
    <<<<"g","e","t","a","d","a","p","t","e","r","a","d","d","r","e","s","s","e","s">>, "Alternate function to retrieve adapter addresses with extended options.">>,
    <<<<"c","o","n","v","e","r","t","i","f","i","n","d","e","x","2","l","u","i","d">>, "Converts an interface index to a locally unique identifier (LUID).">>,
    <<<<"c","o","n","v","e","r","t","l","u","i","d","2","i","f","i","n","d","e","x">>, "Converts a LUID to an interface index.">>,
    <<<<"g","e","t","i","p","s","t","a","t","i","s","t","i","c","s">>, "Retrieves IP statistics for the local system.">>,
    <<<<"g","e","t","i","c","m","p","s","t","a","t","i","s","t","i","c","s">>, "Retrieves ICMP statistics for the local system.">>,
    <<<<"g","e","t","t","c","p","s","t","a","t","i","s","t","i","c","s">>, "Retrieves TCP statistics for the local system.">>,
    <<<<"g","e","t","u","d","p","s","t","a","t","i","s","t","i","c","s">>, "Retrieves UDP statistics for the local system.">>,
    <<<<"s","e","t","i","p","i","n","t","e","r","f","a","c","e">>, "Sets IP interface parameters for a network adapter.">>,
    <<<<"g","e","t","i","p","i","n","t","e","r","f","a","c","e">>, "Retrieves IP interface parameters for a network adapter.">>,
    <<<<"g","e","t","i","p","v","6","s","t","a","t","i","s","t","i","c","s">>, "Retrieves IPv6 statistics for the local system.">>,
    <<<<"c","r","e","a","t","e","i","p","f","o","r","w","a","r","d","e","n","t","r","y">>, "Creates a new entry in the IP routing table.">>,
    <<<<"d","e","l","e","t","e","i","p","f","o","r","w","a","r","d","e","n","t","r","y">>, "Deletes an entry from the IP routing table.">>,
    <<<<"s","e","t","i","p","f","o","r","w","a","r","d","e","n","t","r","y">>, "Modifies an existing entry in the IP routing table.">>,
    <<<<"g","e","t","i","p","f","o","r","w","a","r","d","e","n","t","r","y">>, "Retrieves information for a specific IP routing table entry.">>,
    <<<<"g","e","t","a","d","a","p","t","e","r","i","n","f","o">>, "Retrieves adapter information for the local system.">>,
    <<<<"c","o","n","v","e","r","t","i","p","v","4","m","a","s","k">>, "Converts an IPv4 subnet mask to its prefix length.">>,
    <<<<"g","e","t","d","n","s","s","e","r","v","e","r","s">>, "Retrieves DNS server addresses for a network adapter.">>,
    <<<<"s","e","t","d","n","s","s","e","r","v","e","r","s">>, "Sets DNS server addresses for a network adapter.">>,
    <<<<"g","e","t","w","i","n","3","2","i","p","f","o","r","w","a","r","d","t","a","b","l","e">>, "Retrieves the IP routing table in Win32 format.">>,
    <<<<"s","e","t","i","p","a","d","d","r">>, "Sets the IP address for a network adapter.">>,
    <<<<"g","e","t","i","p","a","d","d","r">>, "Retrieves the IP address for a network adapter.">>,
    <<<<"r","e","n","e","w","i","p","l","e","a","s","e">>, "Renews the IP lease for a network adapter.">>>>

\* The dict literal dll_api_explanations, in source order, before the
\* extend_apis pass.
dll_api_literal ==
  <<[key |-> <<"k","e","r","n","e","l","3","2",".","d","l","l">>,
     explanation |-> "Provides core system functions such as memory management, process/thread creation, file I/O, and synchronization.",
     apis |-> apis_kernel32],
    [key |-> <<"u","s","e","r","3","2",".","d","l","l">>,
     explanation |-> "Handles the Windows user interface including window management, message dispatching, and user input.",
     apis |-> apis_user32],
    [key |-> <<"a","d","v","a","p","i","3","2",".","d","l","l">>,
     explanation |-> "Offers functions for security, registry access, and service management.",
     apis |-> apis_advapi32],
    [key |-> <<"n","t","d","l","l",".","d","l","l">>,
     explanation |-> "Contains low-level NT kernel routines and system call wrappers.",
     apis |-> apis_ntdll],
    [key |-> <<"w","s","2","_","3","2",".","d","l","l">>,
     explanation |-> "Implements the Windows Sockets API for network communications.",
     apis |-> apis_ws2_32],
    [key |-> <<"w","i","n","i","n","e","t",".","d","l","l">>,
     explanation |-> "Provides high-level Internet protocols for web operations.",
     apis |-> apis_wininet],
    [key |-> <<"o","l","e","3","2",".","d","l","l">>,
     explanation |-> "Enables COM object creation, activation, and OLE functionality.",
     apis |-> apis_ole32],
    [key |-> <<"o","l","e","a","u","t","3","2",".","d","l","l">>,
     explanation |-> "Supports OLE Automation by handling VARIANTs, BSTRs, and COM interop.",
     apis |-> apis_oleaut32],
    [key |-> <<"s","h","e","l","l","3","2",".","d","l","l">>,
     explanation |-> "Contains Windows Shell routines for file operations and desktop management.",
     apis |-> apis_shell32],
    [key |-> <<"c","o","m","d","l","g","3","2",".","d","l","l">>,
     explanation |-> "Implements common dialog box functions for file operations, color/font selection, and text search/replace.",
     apis |-> apis_comdlg32],
    [key |-> <<"g","d","i","3","2",".","d","l","l">>,
     explanation |-> "Handles graphics operations, drawing, and font rendering.",
     apis |-> apis_gdi32],
    [key |-> <<"c","o","m","c","t","l","3","2",".","d","l","l">>,
     explanation |-> "Provides common controls for Windows applications such as toolbars, status bars, and list views.",
     apis |-> apis_comctl32],
    [key |-> <<"c","r","y","p","t","3","2",".","d","l","l">>,
     explanation |-> "Offers cryptographic services including certificate management, encryption, and decryption.",
     apis |-> apis_crypt32],
    [key |-> <<"s","h","l","w","a","p","i",".","d","l","l">>,
     explanation |-> "Provides utility functions for path manipulation, registry access, and string handling.",
     apis |-> apis_shlwapi],
    [key |-> <<"i","m","m","3","2",".","d","l","l">>,
     explanation |-> "Manages input method editors (IMEs) for processing complex character input.",
     apis |-> apis_imm32],
    [key |-> <<"m","s","v","c","r","t",".","d","l","l">>,
     explanation |-> "The Microsoft C Runtime Library providing standard C functions.",
     apis |-> apis_msvcrt],
    [key |-> <<"v","e","r","s","i","o","n",".","d","l","l">>,
     explanation |-> "Retrieves version information from files for version checking.",
     apis |-> apis_version],
    [key |-> <<"p","s","a","p","i",".","d","l","l">>,
     explanation |-> "Provides process status functions for enumerating processes and modules.",
     apis |-> apis_psapi],
    [key |-> <<"s","e","t","u","p","a","p","i",".","d","l","l">>,
     explanation |-> "Supports device installation and configuration.",
     apis |-> apis_setupapi],
    [key |-> <<"i","p","h","l","p","a","p","i",".","d","l","l">>,
     explanation |-> "Offers helper functions for IP configuration and network diagnostics.",
     apis |-> apis_iphlpapi]>>

Max(S) == CHOOSE x \in S : \A y \in S : y <= x

\* A dict display {k1: v1, k2: v2, ...}: a key written twice keeps the value
\* written last.
DictOf(pairs) ==
  [k \in {pairs[i][1] : i \in DOMAIN pairs} |->
     pairs[Max({i \in DOMAIN pairs : pairs[i][1] = k})][2]]

\* f"placeholder_{i}"
PlaceholderKey(i) == <<"p","l","a","c","e","h","o","l","d","e","r","_">> \o Str(i)

\* Mutant of extend_apis: the range stops one short of the target.
extend_apis_OneShort(dll_dict, target) ==
  LET current == Cardinality(DOMAIN dll_dict.apis)
      added == {PlaceholderKey(i) : i \in (current + 1)..(target - 1)}
  IN  [dll_dict EXCEPT !.apis =
         [k \in DOMAIN dll_dict.apis \cup added |->
            IF k \in added THEN DEFAULT_EXPLANATION ELSE dll_dict.apis[k]]]

\* extend_apis(dll_dict, target): placeholder_<i> for i in current+1..target,
\* each assigned DEFAULT_EXPLANATION (an assignment overwrites a key already
\* there).
extend_apis(dll_dict, target) ==
  LET current == Cardinality(DOMAIN dll_dict.apis)
      added == {PlaceholderKey(i) : i \in (current + 1)..target}
  IN  [dll_dict EXCEPT !.apis =
         [k \in DOMAIN dll_dict.apis \cup added |->
            IF k \in added THEN DEFAULT_EXPLANATION ELSE dll_dict.apis[k]]]

\* dll_api_explanations once the module is loaded: the dict literal, then
\* extend_apis(dll, target=100) on each of its values. A dict is a tuple of
\* its entries in insertion order, which .values() and .items() follow.
dll_api_explanations ==
  [i \in DOMAIN dll_api_literal |->
     extend_apis([dll_api_literal[i] EXCEPT !.apis = DictOf(@)], 100)]

\* key in nested_dict
InCatalog(nested_dict, key) == \E i \in DOMAIN nested_dict : nested_dict[i].key = key

\* nested_dict[key]
CatalogAt(nested_dict, key) ==
  nested_dict[CHOOSE i \in DOMAIN nested_dict : nested_dict[i].key = key]

dangerous_functions ==
  <<<<"c","r","e","a","t","e","r","e","m","o","t","e","t","h","r","e","a","d">>,
    <<"w","r","i","t","e","p","r","o","c","e","s","s","m","e","m","o","r","y">>,
    <<"v","i","r","t","u","a","l","a","l","l","o","c">>,
    <<"s","e","t","u","n","h","a","n","d","l","e","d","e","x","c","e","p","t","i","o","n","f","i","l","t","e","r">>,
    <<"r","e","g","c","r","e","a","t","e","k","e","y","e","x","a">>,
    <<"r","e","g","c","r","e","a","t","e","k","e","y","e","x","w">>,
    <<"r","e","g","s","e","t","v","a","l","u","e","e","x","a">>,
    <<"g","e","t","p","r","o","c","a","d","d","r","e","s","s">>,
    <<"l","o","a","d","l","i","b","r","a","r","y">>,
    <<"i","n","t","e","r","n","e","t","c","o","n","n","e","c","t","a">>,
    <<"h","t","t","p","s","e","n","d","r","e","q","u","e","s","t","a">>,
    <<"h","t","t","p","e","n","d","r","e","q","u","e","s","t","a">>,
    <<"c","r","y","p","t","e","n","c","r","y","p","t">>,
    <<"c","r","y","p","t","d","e","c","r","y","p","t">>>>

\* ------------------------------------------------------------------ inputs

UNKNOWN_DLL == <<"U","N","K","N","O","W","N","_","D","L","L">>

ORDINAL_ == <<"O","r","d","i","n","a","l","_">>

NotValidPE == "Not a valid PE file."

\* Bounds of the enumerated import tables.
MaxImports == 2

MaxEntries == 2

BulkLen == 21

\* Library names an import descriptor may carry; <<>> is a descriptor without
\* a name.
DllNames ==
  {<<"k","e","r","n","e","l","3","2",".","d","l","l">>,
   <<"K","E","R","N","E","L","3","2",".","D","L","L">>,
   <<>>}

\* Import entries: by name (two spellings of a catalogued, dangerous function)
\* or by ordinal only.
EntryPool ==
  {[name |-> <<"V","i","r","t","u","a","l","A","l","l","o","c">>, ordinal |-> 0],
   [name |-> <<"v","i","r","t","u","a","l","a","l","l","o","c">>, ordinal |-> 0],
   [name |-> <<>>, ordinal |-> 2],
   [name |-> <<>>, ordinal |-> 12]}

SeqsUpTo(S, n) == UNION {[1..k -> S] : k \in 0..n}

\* Import tables of at most n descriptors holding at most `budget` entries in
\* all.
RECURSIVE TablesUpTo(_, _)
TablesUpTo(n, budget) ==
  IF n = 0 THEN {<<>>}
  ELSE {<<>>} \cup
       UNION {{<<d>> \o t : t \in TablesUpTo(n - 1, budget - Len(d.entries))} :
                d \in [name : DllNames, entries : SeqsUpTo(EntryPool, budget)]}

SmallTables == TablesUpTo(MaxImports, MaxEntries)

\* Long entry lists: BulkLen imports by ordinal 1..BulkLen, and the first
\* BulkLen functions of the kernel32 catalog imported by name.
BulkByOrdinal == [i \in 1..BulkLen |-> [name |-> <<>>, ordinal |-> i]]

BulkByName == [i \in 1..BulkLen |-> [name |-> apis_kernel32[i][1], ordinal |-> 0]]

\* The same catalogued names with two functions the catalog does not hold
\* among them: one by name that sorts first, one by ordinal that sorts inside.
BulkMixed ==
  <<[name |-> <<"A","a","a">>, ordinal |-> 0]>>
    \o BulkByName \o <<[name |-> <<>>, ordinal |-> 7]>>

BulkTables ==
  {<<[name |-> n, entries |-> e]>> :
     n \in DllNames, e \in {BulkByOrdinal, BulkByName, BulkMixed}}

\* advapi32.dll importing OpenSCManagerA, in the spelling of the import table
\* and lower-cased, and a function the catalog does not hold.
CatalogCaseTables ==
  {<<[name |-> <<"a","d","v","a","p","i","3","2",".","d","l","l">>, entries |-> <<[name |-> f, ordinal |-> 0]>>]>> :
     f \in {<<"O","p","e","n","S","C","M","a","n","a","g","e","r","A">>,
            <<"o","p","e","n","s","c","m","a","n","a","g","e","r","a">>,
            <<"N","o","S","u","c","h","F","u","n","c","t","i","o","n">>}}

\* kernel32.dll importing one member of dangerous_functions, for each member.
DangerousTables ==
  {<<[name |-> <<"k","e","r","n","e","l","3","2",".","d","l","l">>,
      entries |-> <<[name |-> dangerous_functions[k], ordinal |-> 0]>>]>> :
     k \in DOMAIN dangerous_functions}

\* kernel32.dll importing a function whose name holds markup characters,
\* beside a catalogued one.
MarkupTables ==
  {<<[name |-> <<"k","e","r","n","e","l","3","2",".","d","l","l">>,
      entries |-> <<[name |-> <<"<","b",">","&">>, ordinal |-> 0],
                    [name |-> <<"V","i","r","t","u","a","l","A","l","l","o","c">>, ordinal |-> 0]>>]>>}

\* What lief.parse returns: nothing, a binary of another format, or a PE
\* binary with its import table.
Binaries ==
  {[kind |-> "none", imports |-> <<>>], [kind |-> "elf", imports |-> <<>>]}
    \cup {[kind |-> "pe", imports |-> t] :
            t \in SmallTables \cup BulkTables \cup CatalogCaseTables
                    \cup DangerousTables \cup MarkupTables}

\* ------------------------------------------------------------------ extract_and_sort_imports

\* imp.name or "UNKNOWN_DLL"
DllNameOf(imp) == IF imp.name # <<>> THEN imp.name ELSE UNKNOWN_DLL

\* entry.name if entry.name else f"Ordinal_{entry.ordinal}"
FuncOf(entry) == IF entry.name # <<>> THEN entry.name ELSE ORDINAL_ \o Str(entry.ordinal)

\* Mutant of FuncsOf: entries without a name are passed over.
FuncsOfNamedOnly(imp) ==
  LET named == SelectSeq(imp.entries, LAMBDA entry : entry.name # <<>>)
  IN  [i \in DOMAIN named |-> FuncOf(named[i])]

\* The loop over imp.entries: the functions appended for one descriptor.
FuncsOf(imp) == [i \in DOMAIN imp.entries |-> FuncOf(imp.entries[i])]

\* Mutant of GroupByDll: every descriptor opens a new item, also when its name
\* is already a key.
GroupByDllNoMerge(imports) ==
  [i \in DOMAIN imports |->
     [dll |-> DllNameOf(imports[i]), functions |-> FuncsOf(imports[i])]]

\* imports_by_dll after the loop over binary.imports, as the tuple of its
\* items in insertion order.
RECURSIVE GroupByDll(_)
GroupByDll(imports) ==
  IF imports = <<>> THEN <<>>
  ELSE LET prev == GroupByDll(SubSeq(imports, 1, Len(imports) - 1))
           imp == imports[Len(imports)]
           dll_name == DllNameOf(imp)
           at == {i \in DOMAIN prev : prev[i].dll = dll_name}
       IN  IF at = {}
           THEN Append(prev, [dll |-> dll_name, functions |-> FuncsOf(imp)])
           ELSE [prev EXCEPT ![Min(at)].functions = @ \o FuncsOf(imp)]

\* Mutant of SortEachList: the lists stay in import-table order.
SortEachListSkipped(by_dll) == by_dll

\* imports_by_dll[dll].sort(key=str.lower) for every dll
SortEachList(by_dll) ==
  [i \in DOMAIN by_dll |-> [by_dll[i] EXCEPT !.functions = SortByLower(@)]]

\* Mutant of SortKeys: the keys stay in insertion order.
SortKeysSkipped(by_dll) == by_dll

\* {dll: imports_by_dll[dll] for dll in sorted(imports_by_dll, key=str.lower)}
SortKeys(by_dll) ==
  LET keys == SortByLower([i \in DOMAIN by_dll |-> by_dll[i].dll])
  IN  [i \in DOMAIN keys |->
         by_dll[CHOOSE j \in DOMAIN by_dll : by_dll[j].dll = keys[i]]]

\* Mutant of extract_and_sort_imports: only `not binary` is tested, a binary
\* of another format goes on to the import loop.
extract_and_sort_imports_NoTypeTest(parsed) ==
  IF parsed.kind = "none"
  THEN [ok |-> FALSE, error |-> NotValidPE, value |-> <<>>]
  ELSE [ok |-> TRUE, error |-> "",
        value |-> SortKeys(SortEachList(GroupByDll(parsed.imports)))]

\* extract_and_sort_imports on what the parser returned: the mapping, or the
\* ValueError raised (not binary, or not isinstance(binary, lief.PE.Binary)).
extract_and_sort_imports(parsed) ==
  IF parsed.kind = "none" \/ parsed.kind # "pe"
  THEN [ok |-> FALSE, error |-> NotValidPE, value |-> <<>>]
  ELSE [ok |-> TRUE, error |-> "",
        value |-> SortKeys(SortEachList(GroupByDll(parsed.imports)))]

\* ------------------------------------------------------------------ renderers

MaxPrinted == 20

Line(tag, name, text) == [tag |-> tag, name |-> name, text |-> text]

\* Mutant of TextApiLines: every appended line counts towards the break.
RECURSIVE TextApiLinesCountAll(_, _, _, _)
TextApiLinesCountAll(apis, dll_info, i, printed) ==
  IF i > Len(apis) THEN <<>>
  ELSE LET api == apis[i]
           api_key == Lower(api)
           known == api_key \in DOMAIN dll_info.apis
           line == IF known
                   THEN Line("api_explained", api, dll_info.apis[api_key])
                   ELSE Line("api", api, "")
           count == printed + 1
       IN  <<line>> \o (IF count >= MaxPrinted THEN <<>>
                        ELSE TextApiLinesCountAll(apis, dll_info, i + 1, count))

\* The loop over sorted(functions, key=str.lower) of generate_text_output,
\* from index i on with `printed` explained functions so far: one line per
\* function, and a break once 20 explained ones have been appended.
RECURSIVE TextApiLines(_, _, _, _)
TextApiLines(apis, dll_info, i, printed) ==
  IF i > Len(apis) THEN <<>>
  ELSE LET api == apis[i]
           api_key == Lower(api)
           known == api_key \in DOMAIN dll_info.apis
           line == IF known
                   THEN Line("api_explained", api, dll_info.apis[api_key])
                   ELSE Line("api", api, "")
           count == IF known THEN printed + 1 ELSE printed
       IN  <<line>> \o (IF count >= MaxPrinted THEN <<>>
                        ELSE TextApiLines(apis, dll_info, i + 1, count))

\* Mutant of TextDllLines: the catalog is searched for the library name as
\* imported, not lower-cased.
TextDllLinesExactKey(item, nested_dict) ==
  LET key == item.dll
  IN  IF InCatalog(nested_dict, key)
      THEN <<Line("dll", item.dll, ""),
             Line("dll_explanation", <<>>, CatalogAt(nested_dict, key).explanation)>>
           \o TextApiLines(SortByLower(item.functions), CatalogAt(nested_dict, key), 1, 0)
           \o <<Line("blank", <<>>, "")>>
      ELSE <<>>

\* The lines generate_text_output appends for one item of sorted_imports.
TextDllLines(item, nested_dict) ==
  LET key == Lower(item.dll)
  IN  IF InCatalog(nested_dict, key)
      THEN <<Line("dll", item.dll, ""),
             Line("dll_explanation", <<>>, CatalogAt(nested_dict, key).explanation)>>
           \o TextApiLines(SortByLower(item.functions), CatalogAt(nested_dict, key), 1, 0)
           \o <<Line("blank", <<>>, "")>>
      ELSE <<>>

\* The explanation the renderers look up for a dangerous function: that of
\* the first catalog library holding its lower-cased name; "" stands for None.
DangerousExplanation(func, nested_dict) ==
  LET hits == {i \in DOMAIN nested_dict : Lower(func) \in DOMAIN nested_dict[i].apis}
  IN  IF hits = {} THEN "" ELSE nested_dict[Min(hits)].apis[Lower(func)]

\* if explanation and explanation != DEFAULT_EXPLANATION
ShownExplanation(func, nested_dict) ==
  LET explanation == DangerousExplanation(func, nested_dict)
  IN  IF explanation # "" /\ explanation # DEFAULT_EXPLANATION THEN explanation ELSE ""

\* The dangerous-function section of generate_text_output; dangerous_set is
\* given in its iteration order.
TextDangerousLines(dangerous_set, nested_dict) ==
  IF dangerous_set = <<>> THEN <<>>
  ELSE LET funcs == SortByLower(dangerous_set)
       IN  <<Line("dangerous_heading", <<>>, "Most Dangerous/Suspicious Functions:")>>
           \o [i \in DOMAIN funcs |->
                 IF ShownExplanation(funcs[i], nested_dict) # ""
                 THEN Line("api_explained", funcs[i], ShownExplanation(funcs[i], nested_dict))
                 ELSE Line("api", funcs[i], "")]

RECURSIVE Concat(_)
Concat(seqs) == IF seqs = <<>> THEN <<>> ELSE seqs[1] \o Concat(Tail(seqs))

\* generate_text_output: the lines joined by "\n", as the tuple of lines.
generate_text_output(sorted_imports_, nested_dict, dangerous_set) ==
  Concat([i \in DOMAIN sorted_imports_ |-> TextDllLines(sorted_imports_[i], nested_dict)])
    \o TextDangerousLines(dangerous_set, nested_dict)

\* html.escape(s) on one character (quote=True).
EscapeChar(c) ==
  IF c = "&" THEN <<"&","a","m","p",";">>
  ELSE IF c = "<" THEN <<"&","l","t",";">>
  ELSE IF c = ">" THEN <<"&","g","t",";">>
  ELSE IF c = "\"" THEN <<"&","q","u","o","t",";">>
  ELSE IF c = "'" THEN <<"&","#","x","2","7",";">>
  ELSE <<c>>

\* html.escape of a name
HtmlEscape(s) == Concat([i \in DOMAIN s |-> EscapeChar(s[i])])

\* html.escape of an explanation: explanations are not modelled character by
\* character, the escaped text is kept apart from the raw one.
HtmlEscapeText(text) == <<"html.escape", text>>

HtmlHead ==
  <<"<html>", "<head>", "<title>PE Import Analysis</title>", "<style>",
    "table { border-collapse: collapse; width: 90%; margin: 10px; }",
    "th, td { border: 1px solid #ddd; padding: 8px; }",
    "th { background-color: #f2f2f2; }",
    "</style>", "</head>", "<body>", "<h1>PE Import Analysis</h1>">>

Literal(text) == Line("literal", <<>>, <<"raw", text>>)

\* Mutant of HtmlApiRows: a function the catalog does not hold gets the
\* default explanation.
RECURSIVE HtmlApiRowsDefault(_, _, _, _)
HtmlApiRowsDefault(apis, dll_info, i, printed) ==
  IF i > Len(apis) THEN <<>>
  ELSE LET api == apis[i]
           api_key == Lower(api)
           known == api_key \in DOMAIN dll_info.apis
           row == IF known
                  THEN Line("row", HtmlEscape(api), HtmlEscapeText(dll_info.apis[api_key]))
                  ELSE Line("row", HtmlEscape(api), HtmlEscapeText(DEFAULT_EXPLANATION))
           count == IF known THEN printed + 1 ELSE printed
       IN  <<row>> \o (IF count >= MaxPrinted THEN <<>>
                       ELSE HtmlApiRowsDefault(apis, dll_info, i + 1, count))

\* The row loop of generate_html_output, as TextApiLines.
RECURSIVE HtmlApiRows(_, _, _, _)
HtmlApiRows(apis, dll_info, i, printed) ==
  IF i > Len(apis) THEN <<>>
  ELSE LET api == apis[i]
           api_key == Lower(api)
           known == api_key \in DOMAIN dll_info.apis
           row == IF known
                  THEN Line("row", HtmlEscape(api), HtmlEscapeText(dll_info.apis[api_key]))
                  ELSE Line("row", HtmlEscape(api), <<>>)
           count == IF known THEN printed + 1 ELSE printed
       IN  <<row>> \o (IF count >= MaxPrinted THEN <<>>
                       ELSE HtmlApiRows(apis, dll_info, i + 1, count))

TableHeader == "<tr><th>API Function</th><th>Explanation</th></tr>"

\* The lines generate_html_output appends for one item of sorted_imports.
HtmlDllLines(item, nested_dict) ==
  LET key == Lower(item.dll)
  IN  IF InCatalog(nested_dict, key)
      THEN <<Line("h2", HtmlEscape(item.dll), <<>>),
             Line("p_dll_explanation", <<>>,
                  HtmlEscapeText(CatalogAt(nested_dict, key).explanation)),
             Literal("<table>"), Literal(TableHeader)>>
           \o HtmlApiRows(SortByLower(item.functions), CatalogAt(nested_dict, key), 1, 0)
           \o <<Literal("</table>")>>
      ELSE <<>>

\* Mutant of HtmlDangerousLines: the set is listed as iterated, not sorted.
HtmlDangerousLinesUnsorted(dangerous_set, nested_dict) ==
  IF dangerous_set = <<>> THEN <<>>
  ELSE LET funcs == dangerous_set
       IN  <<Line("dangerous_heading", <<>>,
                  <<"raw", "<h2>Most Dangerous/Suspicious Functions</h2>">>),
             Literal("<table>"), Literal(TableHeader)>>
           \o [i \in DOMAIN funcs |->
                 IF ShownExplanation(funcs[i], nested_dict) # ""
                 THEN Line("row", HtmlEscape(funcs[i]),
                           HtmlEscapeText(ShownExplanation(funcs[i], nested_dict)))
                 ELSE Line("row", HtmlEscape(funcs[i]), <<>>)]
           \o <<Literal("</table>")>>

\* The dangerous-function section of generate_html_output.
HtmlDangerousLines(dangerous_set, nested_dict) ==
  IF dangerous_set = <<>> THEN <<>>
  ELSE LET funcs == SortByLower(dangerous_set)
       IN  <<Line("dangerous_heading", <<>>,
                  <<"raw", "<h2>Most Dangerous/Suspicious Functions</h2>">>),
             Literal("<table>"), Literal(TableHeader)>>
           \o [i \in DOMAIN funcs |->
                 IF ShownExplanation(funcs[i], nested_dict) # ""
                 THEN Line("row", HtmlEscape(funcs[i]),
                           HtmlEscapeText(ShownExplanation(funcs[i], nested_dict)))
                 ELSE Line("row", HtmlEscape(funcs[i]), <<>>)]
           \o <<Literal("</table>")>>

\* generate_html_output: the lines joined by "\n", as the tuple of lines.
generate_html_output(sorted_imports_, nested_dict, dangerous_set) ==
  [i \in DOMAIN HtmlHead |-> Literal(HtmlHead[i])]
    \o Concat([i \in DOMAIN sorted_imports_ |-> HtmlDllLines(sorted_imports_[i], nested_dict)])
    \o HtmlDangerousLines(dangerous_set, nested_dict)
    \o <<Literal("</body></html>")>>


\* ------------------------------------------------------------------ main

\* The whitespace of the model's strings: the blank and the tab.
Whitespace == {" ", "\t"}

\* str.strip(): leading and trailing whitespace removed.
Strip(s) ==
  LET solid == {i \in DOMAIN s : s[i] \notin Whitespace}
  IN  IF solid = {} THEN <<>> ELSE SubSeq(s, Min(solid), Max(solid))

\* os.path.basename(path): what follows the last "/".
Basename(path) ==
  LET seps == {i \in DOMAIN path : path[i] = "/"}
  IN  IF seps = {} THEN path ELSE SubSeq(path, Max(seps) + 1, Len(path))

\* Mutant of SplitextRoot: the name is cut at its first dot.
SplitextRootFirstDot(name) ==
  LET dots == {i \in DOMAIN name : name[i] = "."}
  IN  IF dots = {} THEN name ELSE SubSeq(name, 1, Min(dots) - 1)

\* os.path.splitext(name)[0] for a name without "/": the name up to its last
\* dot, unless only dots precede that dot.
SplitextRoot(name) ==
  LET dots == {i \in DOMAIN name : name[i] = "."}
  IN  IF dots = {} THEN name
      ELSE IF \E i \in 1..(Max(dots) - 1) : name[i] # "."
           THEN SubSeq(name, 1, Max(dots) - 1)
           ELSE name

\* f"{base_name}{default_ext}"
DefaultFilename(path, html) ==
  SplitextRoot(Basename(path))
    \o (IF html THEN <<".","h","t","m","l">> ELSE <<".","t","x","t">>)

\* file_name = input(...).strip() or default_filename
ChosenFileName(answer, path, html) ==
  IF Strip(answer) # <<>> THEN Strip(answer) ELSE DefaultFilename(path, html)

\* Mutant of IsYes: an answer that begins with y counts as yes.
IsYesByFirstLetter(answer) ==
  Strip(answer) # <<>> /\ Lower(Strip(answer))[1] = "y"

\* input(...).strip().lower() == "y"
IsYes(answer) == Lower(Strip(answer)) = <<"y">>

\* The command-line argument.
Paths == {<<"d","/","m","a","l",".","v","2",".","e","x","e">>}

\* What the user may type at a yes/no prompt.
Answers == {<<"y">>, <<" ","Y"," ">>, <<"n">>, <<"y","e","s">>, <<>>}

\* What the user may type at the file-name prompt.
NameAnswers == {<<>>, <<" "," ">>, <<" ","o","u","t",".","t","x","t"," ">>}

\* Command-line arguments for the study of the file-name prompt: with and
\* without a directory, with no, one and several dots, with a leading dot.
FileNamePaths ==
  Paths \cup
    {<<"m","a","l",".","e","x","e">>,
     <<"s","a","m","p","l","e">>,
     <<"d",".","x","/","t","o","o","l">>,
     <<".","h","i","d","d","e","n">>,
     <<"a","/","b","/","c",".","d",".","e",".","d","l","l">>}

\* What the user may type at the file-name prompt, where it is studied alone.
TypedNames ==
  NameAnswers \cup {<<"r"," ","p">>, <<" "," ","r",".","h","t","m","l">>}

\* What the user may type at a yes/no prompt, where these prompts are studied
\* alone: a word, with or without whitespace before and after it.
YesNoWords ==
  {<<"y">>, <<"Y">>, <<"n">>, <<"N">>, <<"y","e","s">>, <<"Y","e","s">>,
   <<"n","o">>, <<"y","y">>, <<"y"," ","y">>, <<>>}

YesNoPads == {<<>>, <<" ">>, <<"\t">>, <<" ","\t">>}

YesNoLines == {before \o word \o after : before \in YesNoPads, word \in YesNoWords, after \in YesNoPads}

\* The orders in which a Python set may be iterated.
SetOrders(S) ==
  {f \in [1..Cardinality(S) -> S] : \A i, j \in 1..Cardinality(S) : f[i] = f[j] => i = j}

\* All functions of all libraries of the mapping.
AllFunctions(imports) ==
  UNION {Range(imports[i].functions) : i \in DOMAIN imports}

\* Mutant of DangerousFound: only the libraries of the catalog are searched.
DangerousFoundCatalogued(imports) ==
  {api \in UNION {Range(imports[i].functions) :
                    i \in {k \in DOMAIN imports :
                             InCatalog(dll_api_explanations, Lower(imports[k].dll))}} :
     Lower(api) \in Range(dangerous_functions)}

\* The loop of main that fills dangerous_found.
DangerousFound(imports) ==
  {api \in AllFunctions(imports) : Lower(api) \in Range(dangerous_functions)}

NoBinary == [kind |-> "unparsed", imports |-> <<>>]

NoError == [step |-> "", message |-> ""]

VARIABLES
  file_path,          \* args.file_path
  typed,              \* the line the user types at the file-name prompt, where
                      \* that prompt is studied alone; <<>> otherwise
  binary,             \* the parse result handed to extract_and_sort_imports
  pc,                 \* the statement of main reached
  sorted_imports,     \* the mapping returned, a tuple of [dll, functions]
  dangerous_found,    \* the set main collects
  include_dangerous,  \* first answer
  output_html,        \* second answer
  file_name,          \* third answer, or the default
  output_str,         \* the rendered report
  asked,              \* the prompts shown so far, in order
  raised,             \* the exception in flight or handled: its step and message
  files,              \* the files written: name and content, in order
  stdout,             \* the lines printed
  exit_status         \* the process's exit status once it ended, else -1

vars ==
  <<file_path, typed, binary, pc, sorted_imports, dangerous_found, include_dangerous,
    output_html, file_name, output_str, asked, raised, files, stdout, exit_status>>

Init ==
  /\ file_path \in Paths
  /\ typed = <<>>
  /\ binary = NoBinary
  /\ pc = "extract"
  /\ sorted_imports = <<>>
  /\ dangerous_found = {}
  /\ include_dangerous = FALSE
  /\ output_html = FALSE
  /\ file_name = <<>>
  /\ output_str = <<>>
  /\ asked = <<>>
  /\ raised = NoError
  /\ files = <<>>
  /\ stdout = <<>>
  /\ exit_status = -1

\* Mutant of Extract: the ValueError is recorded and main goes on to the
\* detection and the prompts.
ExtractGoesOn ==
  /\ pc = "extract"
  /\ \E parsed \in Binaries :
       LET r == extract_and_sort_imports(parsed)
       IN  /\ sorted_imports' = r.value
           /\ pc' = "detect"
           /\ raised' = IF r.ok THEN raised ELSE [step |-> "extract", message |-> r.error]
  /\ UNCHANGED <<file_path, typed, binary, dangerous_found, include_dangerous, output_html,
                 file_name, output_str, asked, files, stdout, exit_status>>

\* sorted_imports = extract_and_sort_imports(args.file_path): the parser's
\* result is the environment's choice; a ValueError goes to the handler.
Extract ==
  /\ pc = "extract"
  /\ \E parsed \in Binaries :
       LET r == extract_and_sort_imports(parsed)
       IN  IF r.ok
           THEN /\ sorted_imports' = r.value
                /\ pc' = "detect"
                /\ raised' = raised
           ELSE /\ sorted_imports' = sorted_imports
                /\ pc' = "except"
                /\ raised' = [step |-> "extract", message |-> r.error]
  /\ UNCHANGED <<file_path, typed, binary, dangerous_found, include_dangerous, output_html,
                 file_name, output_str, asked, files, stdout, exit_status>>

\* Mutant of DetectDangerous: the prompts start before the loop has run.
DetectDangerousSkipped ==
  /\ pc = "detect"
  /\ dangerous_found' = dangerous_found
  /\ pc' = "ask_dangerous"
  /\ UNCHANGED <<file_path, typed, binary, sorted_imports, include_dangerous, output_html,
                 file_name, output_str, asked, raised, files, stdout, exit_status>>

\* The loop that collects dangerous_found.
DetectDangerous ==
  /\ pc = "detect"
  /\ dangerous_found' = DangerousFound(sorted_imports)
  /\ pc' = "ask_dangerous"
  /\ UNCHANGED <<file_path, typed, binary, sorted_imports, include_dangerous, output_html,
                 file_name, output_str, asked, raised, files, stdout, exit_status>>

\* input() at end of input raises EOFError, after the prompt was shown.
PromptFails(prompt) ==
  /\ asked' = Append(asked, prompt)
  /\ raised' = [step |-> "prompt", message |-> "EOF when reading a line"]
  /\ pc' = "except"

\* include_dangerous = input("Include dangerous/suspicious ...").strip().lower() == "y"
AskDangerous ==
  /\ pc = "ask_dangerous"
  /\ \/ \E answer \in Answers :
          /\ include_dangerous' = IsYes(answer)
          /\ asked' = Append(asked, "dangerous")
          /\ pc' = "ask_html"
          /\ raised' = raised
     \/ /\ PromptFails("dangerous")
        /\ include_dangerous' = include_dangerous
  /\ UNCHANGED <<file_path, typed, binary, sorted_imports, dangerous_found, output_html,
                 file_name, output_str, files, stdout, exit_status>>

\* output_html = input("Save output as HTML? (y/n): ").strip().lower() == "y"
AskHtml ==
  /\ pc = "ask_html"
  /\ \/ \E answer \in Answers :
          /\ output_html' = IsYes(answer)
          /\ asked' = Append(asked, "html")
          /\ pc' = "ask_file_name"
          /\ raised' = raised
     \/ /\ PromptFails("html")
        /\ output_html' = output_html
  /\ UNCHANGED <<file_path, typed, binary, sorted_imports, dangerous_found, include_dangerous,
                 file_name, output_str, files, stdout, exit_status>>

\* file_name = input(f"Enter output file name ...").strip() or default_filename
AskFileName ==
  /\ pc = "ask_file_name"
  /\ \/ \E answer \in NameAnswers :
          /\ file_name' = ChosenFileName(answer, file_path, output_html)
          /\ asked' = Append(asked, "file_name")
          /\ pc' = "render"
          /\ raised' = raised
     \/ /\ PromptFails("file_name")
        /\ file_name' = file_name
  /\ UNCHANGED <<file_path, typed, binary, sorted_imports, dangerous_found, include_dangerous,
                 output_html, output_str, files, stdout, exit_status>>

\* Mutant of Render: dangerous_found is handed over whatever the first answer.
RenderDangerousAlways ==
  /\ pc = "render"
  /\ \E order \in SetOrders(dangerous_found) :
       output_str' = IF output_html
                     THEN generate_html_output(sorted_imports, dll_api_explanations, order)
                     ELSE generate_text_output(sorted_imports, dll_api_explanations, order)
  /\ pc' = "write"
  /\ UNCHANGED <<file_path, typed, binary, sorted_imports, dangerous_found, include_dangerous,
                 output_html, file_name, asked, raised, files, stdout, exit_status>>

\* Mutant of Render: the plain-text rendering whatever the format answer.
RenderTextAlways ==
  /\ pc = "render"
  /\ \E order \in (IF include_dangerous THEN SetOrders(dangerous_found) ELSE {<<>>}) :
       output_str' = generate_text_output(sorted_imports, dll_api_explanations, order)
  /\ pc' = "write"
  /\ UNCHANGED <<file_path, typed, binary, sorted_imports, dangerous_found, include_dangerous,
                 output_html, file_name, asked, raised, files, stdout, exit_status>>

\* output_str = generate_html_output(...) or generate_text_output(...), with
\* dangerous_found if include_dangerous else []. The set is iterated in an
\* order the hash seed decides.
Render ==
  /\ pc = "render"
  /\ \E order \in (IF include_dangerous THEN SetOrders(dangerous_found) ELSE {<<>>}) :
       output_str' = IF output_html
                     THEN generate_html_output(sorted_imports, dll_api_explanations, order)
                     ELSE generate_text_output(sorted_imports, dll_api_explanations, order)
  /\ pc' = "write"
  /\ UNCHANGED <<file_path, typed, binary, sorted_imports, dangerous_found, include_dangerous,
                 output_html, file_name, asked, raised, files, stdout, exit_status>>

\* Mutant of WriteFile: after a failed open the run goes on to the message.
WriteFileFailureGoesOn ==
  /\ pc = "write"
  /\ \/ /\ files' = Append(files, [name |-> file_name, content |-> output_str])
        /\ pc' = "saved"
        /\ raised' = raised
     \/ /\ files' = files
        /\ pc' = "saved"
        /\ raised' = [step |-> "write", message |-> "open failed"]
  /\ UNCHANGED <<file_path, typed, binary, sorted_imports, dangerous_found, include_dangerous,
                 output_html, file_name, output_str, asked, stdout, exit_status>>

\* with open(file_name, "w", encoding="utf-8") as f: f.write(output_str)
\* open() may raise OSError, and then nothing is written.
WriteFile ==
  /\ pc = "write"
  /\ \/ /\ files' = Append(files, [name |-> file_name, content |-> output_str])
        /\ pc' = "saved"
        /\ raised' = raised
     \/ /\ files' = files
        /\ pc' = "except"
        /\ raised' = [step |-> "write", message |-> "open failed"]
  /\ UNCHANGED <<file_path, typed, binary, sorted_imports, dangerous_found, include_dangerous,
                 output_html, file_name, output_str, asked, stdout, exit_status>>

\* print(f"Output saved to {file_name}")
PrintSaved ==
  /\ pc = "saved"
  /\ stdout' = Append(stdout, Line("saved", file_name, "Output saved to"))
  /\ pc' = "return"
  /\ UNCHANGED <<file_path, typed, binary, sorted_imports, dangerous_found, include_dangerous,
                 output_html, file_name, output_str, asked, raised, files, exit_status>>

\* except Exception as e: print(f"Error: {e}")
Except ==
  /\ pc = "except"
  /\ stdout' = Append(stdout, Line("error", <<>>, raised.message))
  /\ pc' = "return"
  /\ UNCHANGED <<file_path, typed, binary, sorted_imports, dangerous_found, include_dangerous,
                 output_html, file_name, output_str, asked, raised, files, exit_status>>

\* main() returns and the script ends: no sys.exit, no exception left, so the
\* interpreter exits with status 0.
Return ==
  /\ pc = "return"
  /\ exit_status' = 0
  /\ pc' = "done"
  /\ UNCHANGED <<file_path, typed, binary, sorted_imports, dangerous_found, include_dangerous,
                 output_html, file_name, output_str, asked, raised, files, stdout>>

Next ==
  \/ Extract
  \/ DetectDangerous
  \/ AskDangerous
  \/ AskHtml
  \/ AskFileName
  \/ Render
  \/ WriteFile
  \/ PrintSaved
  \/ Except
  \/ Return

Spec == Init /\ [][Next]_vars


\* ------------------------------------------------------------------ extract_and_sort_imports alone

\* extract_and_sort_imports applied to every parse result of Binaries: the
\* parse result is kept beside what the function returned or raised.
InitExtract ==
  /\ file_path \in Paths
  /\ typed = <<>>
  /\ binary \in Binaries
  /\ pc = "call_extract"
  /\ sorted_imports = <<>>
  /\ dangerous_found = {}
  /\ include_dangerous = FALSE
  /\ output_html = FALSE
  /\ file_name = <<>>
  /\ output_str = <<>>
  /\ asked = <<>>
  /\ raised = NoError
  /\ files = <<>>
  /\ stdout = <<>>
  /\ exit_status = -1

CallExtract ==
  /\ pc = "call_extract"
  /\ LET r == extract_and_sort_imports(binary)
     IN  /\ sorted_imports' = r.value
         /\ pc' = IF r.ok THEN "returned" ELSE "raised"
         /\ raised' = IF r.ok THEN raised ELSE [step |-> "extract", message |-> r.error]
  /\ UNCHANGED <<file_path, typed, binary, dangerous_found, include_dangerous, output_html,
                 file_name, output_str, asked, files, stdout, exit_status>>

SpecExtract == InitExtract /\ [][CallExtract]_vars

\* ------------------------------------------------------------------ the file-name prompt alone

\* main at the file-name prompt, both yes/no prompts answered, for every
\* command-line argument of FileNamePaths and every line of TypedNames.
InitFileName ==
  /\ file_path \in FileNamePaths
  /\ typed \in TypedNames
  /\ binary = NoBinary
  /\ pc = "ask_file_name"
  /\ sorted_imports = <<>>
  /\ dangerous_found = {}
  /\ include_dangerous \in BOOLEAN
  /\ output_html \in BOOLEAN
  /\ file_name = <<>>
  /\ output_str = <<>>
  /\ asked = <<"dangerous", "html">>
  /\ raised = NoError
  /\ files = <<>>
  /\ stdout = <<>>
  /\ exit_status = -1

\* The file-name prompt reads the line typed.
ReadFileName ==
  /\ pc = "ask_file_name"
  /\ file_name' = ChosenFileName(typed, file_path, output_html)
  /\ asked' = Append(asked, "file_name")
  /\ pc' = "render"
  /\ UNCHANGED <<file_path, typed, binary, sorted_imports, dangerous_found, include_dangerous,
                 output_html, output_str, raised, files, stdout, exit_status>>

SpecFileName == InitFileName /\ [][ReadFileName]_vars

\* ------------------------------------------------------------------ the yes/no prompts alone

\* main at one of the two yes/no prompts, extraction and detection done for
\* a PE without imports, for every line of YesNoLines.
InitYesNo ==
  /\ file_path \in Paths
  /\ typed \in YesNoLines
  /\ binary = NoBinary
  /\ pc \in {"ask_dangerous", "ask_html"}
  /\ sorted_imports = <<>>
  /\ dangerous_found = {}
  /\ include_dangerous \in (IF pc = "ask_html" THEN BOOLEAN ELSE {FALSE})
  /\ output_html = FALSE
  /\ file_name = <<>>
  /\ output_str = <<>>
  /\ asked = IF pc = "ask_html" THEN <<"dangerous">> ELSE <<>>
  /\ raised = NoError
  /\ files = <<>>
  /\ stdout = <<>>
  /\ exit_status = -1

\* The first prompt reads the line typed.
ReadDangerous ==
  /\ pc = "ask_dangerous"
  /\ include_dangerous' = IsYes(typed)
  /\ asked' = Append(asked, "dangerous")
  /\ pc' = "answered_dangerous"
  /\ UNCHANGED <<file_path, typed, binary, sorted_imports, dangerous_found, output_html,
                 file_name, output_str, raised, files, stdout, exit_status>>

\* The second prompt reads the line typed.
ReadHtml ==
  /\ pc = "ask_html"
  /\ output_html' = IsYes(typed)
  /\ asked' = Append(asked, "html")
  /\ pc' = "answered_html"
  /\ UNCHANGED <<file_path, typed, binary, sorted_imports, dangerous_found, include_dangerous,
                 file_name, output_str, raised, files, stdout, exit_status>>

SpecYesNo == InitYesNo /\ [][ReadDangerous \/ ReadHtml]_vars

\* ------------------------------------------------------------------ the renderers alone

\* main about to render: the mapping is what extract_and_sort_imports returned
\* for a PE binary of Binaries, dangerous_found what the detection loop
\* collected from it, and the three prompts are answered.
InitRender ==
  /\ file_path \in Paths
  /\ typed = <<>>
  /\ binary = NoBinary
  /\ pc = "render"
  /\ \E parsed \in Binaries :
       /\ extract_and_sort_imports(parsed).ok
       /\ sorted_imports = extract_and_sort_imports(parsed).value
  /\ dangerous_found = DangerousFound(sorted_imports)
  /\ include_dangerous \in BOOLEAN
  /\ output_html \in BOOLEAN
  /\ file_name = DefaultFilename(file_path, output_html)
  /\ output_str = <<>>
  /\ asked = <<"dangerous", "html", "file_name">>
  /\ raised = NoError
  /\ files = <<>>
  /\ stdout = <<>>
  /\ exit_status = -1

SpecRender == InitRender /\ [][Render]_vars

\* ------------------------------------------------------------------ properties

Returned == pc = "returned"

NoDuplicates(seq) == \A i, j \in DOMAIN seq : seq[i] = seq[j] => i = j

IsSortedByLower(seq) ==
  \A i \in 1..(Len(seq) - 1) : StrLeq(Lower(seq[i]), Lower(seq[i + 1]))

\* The name a descriptor's entries are filed under.
KeyOfDescriptor(imp) == IF imp.name = <<>> THEN UNKNOWN_DLL ELSE imp.name

\* The function list the mapping holds under a key (<<>> if none).
ListUnder(key) ==
  IF \E i \in DOMAIN sorted_imports : sorted_imports[i].dll = key
  THEN sorted_imports[CHOOSE i \in DOMAIN sorted_imports : sorted_imports[i].dll = key].functions
  ELSE <<>>

\* C1: every function list of the mapping returned by extract_and_sort_imports
\* is duplicate-free, also when the import table repeats a name or an ordinal
\* for a library or names a library in several descriptors.
C1_ListsDuplicateFree ==
  Returned => \A i \in DOMAIN sorted_imports : NoDuplicates(sorted_imports[i].functions)


\* C5 as stated: the mapping has exactly as many keys as binary.imports has
\* elements.
C5_KeysEqualDescriptors ==
  Returned => Len(sorted_imports) = Len(binary.imports)

\* C5, amended: the mapping has exactly one key per distinct descriptor name
\* (a descriptor without a name counting as UNKNOWN_DLL), so at most N keys
\* for N descriptors, and N when the names are pairwise distinct.
C5_KeysEqualDistinctNames ==
  Returned =>
    /\ Len(sorted_imports)
         = Cardinality({KeyOfDescriptor(binary.imports[i]) : i \in DOMAIN binary.imports})
    /\ {sorted_imports[i].dll : i \in DOMAIN sorted_imports}
         = {KeyOfDescriptor(binary.imports[i]) : i \in DOMAIN binary.imports}

\* Two descriptors that share a name were merged under one key.
C5_Witness ==
  /\ Returned
  /\ Len(binary.imports) = 2
  /\ binary.imports[1].name = binary.imports[2].name
  /\ Len(sorted_imports) = 1

\* C6: the keys of the returned mapping are unique and, in iteration order,
\* sorted case-insensitively.
C6_KeysUniqueSorted ==
  Returned =>
    /\ NoDuplicates([i \in DOMAIN sorted_imports |-> sorted_imports[i].dll])
    /\ IsSortedByLower([i \in DOMAIN sorted_imports |-> sorted_imports[i].dll])

\* The table names UNKNOWN_DLL's descriptor before kernel32.dll's, and the
\* mapping holds them the other way round.
C6_Witness ==
  /\ Returned
  /\ Len(binary.imports) = 2
  /\ binary.imports[1].name = <<>>
  /\ binary.imports[2].name # <<>>
  /\ Len(sorted_imports) = 2
  /\ sorted_imports[2].dll = UNKNOWN_DLL

\* C7: every function list of the returned mapping is sorted
\* case-insensitively.
C7_ListsSorted ==
  Returned => \A i \in DOMAIN sorted_imports : IsSortedByLower(sorted_imports[i].functions)

\* A descriptor lists VirtualAlloc before an import by ordinal, and the
\* returned list holds Ordinal_<n> first.
C7_Witness ==
  /\ Returned
  /\ \E i \in DOMAIN binary.imports :
       /\ Len(binary.imports[i].entries) = 2
       /\ binary.imports[i].entries[1].name # <<>>
       /\ binary.imports[i].entries[2].name = <<>>
  /\ \E i \in DOMAIN sorted_imports :
       /\ Len(sorted_imports[i].functions) = 2
       /\ SubSeq(sorted_imports[i].functions[1], 1, Len(ORDINAL_)) = ORDINAL_

\* The value of a tuple of decimal digits; -1 if it is not one, or has a
\* leading zero.
RECURSIVE DigitsValue(_)
DigitsValue(ds) ==
  IF ds = <<>> THEN 0
  ELSE DigitsValue(SubSeq(ds, 1, Len(ds) - 1)) * 10 + (IndexOf(Digits, ds[Len(ds)]) - 1)

DecimalValue(ds) ==
  IF ds = <<>> \/ (\E i \in DOMAIN ds : ds[i] \notin Range(Digits))
     \/ (Len(ds) > 1 /\ ds[1] = "0")
  THEN -1
  ELSE DigitsValue(ds)

\* f is 'Ordinal_<n>'.
IsPlaceholderOf(f, n) ==
  /\ Len(f) > Len(ORDINAL_)
  /\ SubSeq(f, 1, Len(ORDINAL_)) = ORDINAL_
  /\ DecimalValue(SubSeq(f, Len(ORDINAL_) + 1, Len(f))) = n

\* All entries of the parsed import table without a name.
NamelessEntries ==
  {e \in UNION {Range(binary.imports[i].entries) : i \in DOMAIN binary.imports} :
     e.name = <<>>}

\* C8: an entry with a name is recorded under exactly that name, an entry
\* without one as 'Ordinal_<n>' with n its ordinal, and two nameless entries
\* get the same placeholder if and only if their ordinals are equal.
C8_NamesAndPlaceholders ==
  Returned =>
    /\ \A i \in DOMAIN binary.imports :
         \A k \in DOMAIN binary.imports[i].entries :
           LET e == binary.imports[i].entries[k]
               list == ListUnder(KeyOfDescriptor(binary.imports[i]))
           IN  IF e.name # <<>>
               THEN e.name \in Range(list)
               ELSE \E f \in Range(list) : IsPlaceholderOf(f, e.ordinal)
    /\ \A e1, e2 \in NamelessEntries :
         (FuncOf(e1) = FuncOf(e2)) <=> (e1.ordinal = e2.ordinal)
    /\ \A e \in NamelessEntries : IsPlaceholderOf(FuncOf(e), e.ordinal)

\* One descriptor imports by the ordinals 2 and 12, recorded as two different
\* placeholders.
C8_Witness ==
  /\ Returned
  /\ \E i \in DOMAIN binary.imports :
       /\ Len(binary.imports[i].entries) = 2
       /\ binary.imports[i].entries[1] = [name |-> <<>>, ordinal |-> 12]
       /\ binary.imports[i].entries[2] = [name |-> <<>>, ordinal |-> 2]
  /\ Len(sorted_imports) = 1
  /\ sorted_imports[1].functions[1] # sorted_imports[1].functions[2]

\* C9: extract_and_sort_imports raises 'Not a valid PE file.' and returns no
\* mapping whenever the parser returned nothing or a binary that is not a PE
\* image, and returns a mapping in every other case.
C9_RaisesIffNotPE ==
  pc # "call_extract" =>
    IF binary.kind = "pe"
    THEN pc = "returned" /\ raised = NoError
    ELSE pc = "raised" /\ raised.message = "Not a valid PE file."
         /\ sorted_imports = <<>>

\* The parser returned a binary of another format and the call raised.
C9_Witness ==
  /\ binary.kind = "elf"
  /\ pc = "raised"
  /\ raised.step = "extract"


\* The report has been rendered (output_str holds it).
Rendered ==
  \/ pc \in {"write", "saved"}
  \/ pc \in {"except", "return", "done"} /\ raised.step = "write"
  \/ pc \in {"return", "done"} /\ raised = NoError

IsFunctionLine(line) == line.tag \in {"api", "api_explained", "row"}

\* The index of the dangerous-section heading in a report, 0 if it has none.
HeadingIndex(out) ==
  LET headings == {i \in DOMAIN out : out[i].tag = "dangerous_heading"}
  IN  IF headings # {} THEN Min(headings) ELSE 0

\* Where the library sections of a report end.
LibraryPartEnd(out) ==
  LET heading == HeadingIndex(out)
  IN  IF heading = 0 THEN Len(out) ELSE heading - 1

\* The indexes of the lines that open a library section.
SectionStarts(out) == {i \in 1..LibraryPartEnd(out) : out[i].tag \in {"dll", "h2"}}

\* The function lines listed under the library section opened at line i:
\* those up to the next section or the end of the library part.
SectionFunctionLines(out, i) ==
  LET starts == SectionStarts(out)
  IN  {j \in (i + 1)..LibraryPartEnd(out) :
         /\ IsFunctionLine(out[j])
         /\ \A k \in (i + 1)..j : k \notin starts}

\* C2: generate_text_output and generate_html_output list at most 20
\* functions under any single library, explained or not.
C2_AtMost20PerLibrary ==
  Rendered =>
    \A i \in SectionStarts(output_str) :
      Cardinality(SectionFunctionLines(output_str, i)) <= 20

\* C3: when extract_and_sort_imports fails, main prints an error message and
\* the process exits with a non-zero status.
C3_ParseFailureExitsNonZero ==
  (pc = "done" /\ raised.step = "extract") =>
    /\ \E i \in DOMAIN stdout : stdout[i].tag = "error"
    /\ exit_status # 0

\* The names listed in the dangerous-function section of a report.
DangerousSectionNames(out) ==
  IF HeadingIndex(out) = 0 THEN {}
  ELSE {out[j].name : j \in {k \in (HeadingIndex(out) + 1)..Len(out) : IsFunctionLine(out[k])}}

\* The imported functions whose lower-cased name is in dangerous_functions,
\* whatever library imports them.
ImportedDangerous ==
  {f \in UNION {Range(sorted_imports[i].functions) : i \in DOMAIN sorted_imports} :
     \E k \in DOMAIN dangerous_functions : Lower(f) = dangerous_functions[k]}

\* C4: the functions listed in the dangerous-function section are, when the
\* user opted in, exactly the imported functions (of any library, catalogued
\* or not) whose lower-cased name is in dangerous_functions, and none when the
\* user did not opt in.
C4_DangerousSectionIffOptIn ==
  Rendered =>
    DangerousSectionNames(output_str)
      = IF include_dangerous
        THEN {IF output_html THEN HtmlEscape(f) ELSE f : f \in ImportedDangerous}
        ELSE {}

\* The user opted in and the section lists VirtualAlloc, imported from a
\* library without a name, which is in no catalog.
C4_Witness ==
  /\ Rendered
  /\ include_dangerous
  /\ Len(sorted_imports) = 1
  /\ sorted_imports[1].dll = UNKNOWN_DLL
  /\ DangerousSectionNames(output_str) = {<<"V","i","r","t","u","a","l","A","l","l","o","c">>}

\* C10: when extraction fails, no question is asked, no report is rendered
\* and no file is created or written; the run goes to its end.
C10_FailureStopsTheRun ==
  raised.step = "extract" =>
    /\ asked = <<>>
    /\ output_str = <<>>
    /\ files = <<>>
    /\ pc \in {"except", "return", "done"}

\* The run ended after a failed extraction.
C10_Witness ==
  /\ raised.step = "extract"
  /\ pc = "done"
  /\ asked = <<>>
  /\ files = <<>>


\* A set of line numbers as the ascending tuple of its elements.
Ascending(S) ==
  [k \in 1..Cardinality(S) |-> CHOOSE x \in S : Cardinality({y \in S : y < x}) = k - 1]

\* A name as the chosen format shows it.
Shown(name) == IF output_html THEN HtmlEscape(name) ELSE name

\* The items of sorted_imports whose lower-cased library name is a catalog
\* key, in order.
CataloguedItems ==
  LET idx == {i \in DOMAIN sorted_imports :
                LET lowered == Lower(sorted_imports[i].dll)
                IN  \E c \in DOMAIN dll_api_explanations :
                      dll_api_explanations[c].key = lowered}
      order == Ascending(idx)
  IN  [k \in DOMAIN order |-> sorted_imports[order[k]]]

\* The catalog's API mapping of a catalogued item's library.
ApisOf(item) ==
  LET lowered == Lower(item.dll)
  IN  dll_api_explanations[CHOOSE c \in DOMAIN dll_api_explanations :
                             dll_api_explanations[c].key = lowered].apis

\* The function lines of the k-th library section of the report, in order.
SectionLines(k) ==
  LET start == Ascending(SectionStarts(output_str))[k]
      at == Ascending(SectionFunctionLines(output_str, start))
  IN  [n \in DOMAIN at |-> output_str[at[n]]]

\* The k-th section is the k-th catalogued library's.
SectionsMatchCatalogued ==
  LET items == CataloguedItems
      starts == Ascending(SectionStarts(output_str))
  IN  /\ Len(starts) = Len(items)
      /\ \A k \in DOMAIN items : output_str[starts[k]].name = Shown(items[k].dll)

\* A function line carrying the explanation `text` / carrying none.
IsExplainedWith(line, text) ==
  IF output_html THEN line.tag = "row" /\ line.text = <<"html.escape", text>>
  ELSE line.tag = "api_explained" /\ line.text = text

IsBare(line) ==
  IF output_html THEN line.tag = "row" /\ line.text = <<>>
  ELSE line.tag = "api" /\ line.text = ""

\* C11: in both renderers every listed function of a catalogued library for
\* which the catalog holds an entry under that function's name, names compared
\* case-insensitively, is shown with that entry's description.
C11_CataloguedFunctionsExplained ==
  (Rendered /\ SectionsMatchCatalogued) =>
    LET items == CataloguedItems
    IN  \A k \in DOMAIN items :
          LET lines == SectionLines(k)
              apis == ApisOf(items[k])
          IN  \A n \in DOMAIN lines :
                \A f \in Range(items[k].functions) :
                  lines[n].name = Shown(f) =>
                    \A key \in DOMAIN apis :
                      Lower(key) = Lower(f) => IsExplainedWith(lines[n], apis[key])

\* C12: in both renderers a listed function of a catalogued library whose
\* (lower-cased) name is no key of that library's API mapping is shown by
\* name only: the bare name in text, an empty explanation cell in HTML.
C12_UnknownFunctionsBare ==
  (Rendered /\ SectionsMatchCatalogued) =>
    LET items == CataloguedItems
    IN  \A k \in DOMAIN items :
          LET lines == SectionLines(k)
              apis == ApisOf(items[k])
          IN  \A n \in DOMAIN lines :
                \A f \in Range(items[k].functions) :
                  (lines[n].name = Shown(f) /\ Lower(f) \notin DOMAIN apis)
                    => IsBare(lines[n])

\* The HTML report lists NoSuchFunction of advapi32.dll with an empty cell.
C12_Witness ==
  /\ Rendered
  /\ output_html
  /\ Len(CataloguedItems) = 1
  /\ CataloguedItems[1].dll = <<"a","d","v","a","p","i","3","2",".","d","l","l">>
  /\ Cardinality(SectionStarts(output_str)) = 1
  /\ Len(SectionLines(1)) = 1
  /\ SectionLines(1)[1].name = <<"N","o","S","u","c","h","F","u","n","c","t","i","o","n">>
  /\ SectionLines(1)[1].text = <<>>

\* s is a prefix of t.
IsPrefix(s, t) == Len(s) <= Len(t) /\ \A n \in DOMAIN s : s[n] = t[n]

\* The names of the k-th section's function lines, in order.
SectionNames(k) == LET lines == SectionLines(k) IN [n \in DOMAIN lines |-> lines[n].name]

\* The number of functions of an item that the catalog explains.
ExplainedCount(item) ==
  LET apis == ApisOf(item)
  IN  Cardinality({n \in DOMAIN item.functions : Lower(item.functions[n]) \in DOMAIN apis})

\* C13 as stated: every library of the import table, catalogued or not, has a
\* section in the report that lists its imported functions.
C13_EveryLibraryHasSection ==
  Rendered =>
    \A i \in DOMAIN sorted_imports :
      \E start \in SectionStarts(output_str) :
        /\ output_str[start].name = Shown(sorted_imports[i].dll)
        /\ LET at == Ascending(SectionFunctionLines(output_str, start))
           IN  IsPrefix([n \in DOMAIN at |-> output_str[at[n]].name],
                        [n \in DOMAIN sorted_imports[i].functions |->
                           Shown(sorted_imports[i].functions[n])])

\* C13, amended: the report holds one section per library whose lower-cased
\* name is a catalog key, in the mapping's order, and none for any other
\* library; a section lists the library's functions in order, all of them
\* when fewer than 20 of them have a catalog description.
C13_CataloguedLibrariesHaveSection ==
  Rendered =>
    /\ SectionsMatchCatalogued
    /\ LET items == CataloguedItems
       IN  \A k \in DOMAIN items :
             LET all == [n \in DOMAIN items[k].functions |-> Shown(items[k].functions[n])]
                 names == SectionNames(k)
             IN  /\ IsPrefix(names, all)
                 /\ ExplainedCount(items[k]) < 20 => names = all

\* The mapping holds KERNEL32.DLL, with a section listing its function, and
\* UNKNOWN_DLL, with none.
C13_Witness ==
  /\ Rendered
  /\ Len(sorted_imports) = 2
  /\ sorted_imports[1].dll = <<"K","E","R","N","E","L","3","2",".","D","L","L">>
  /\ sorted_imports[2].dll = UNKNOWN_DLL
  /\ Len(sorted_imports[2].functions) = 1
  /\ Cardinality(SectionStarts(output_str)) = 1
  /\ Len(SectionLines(1)) = 1


\* The lines of the dangerous-function section of the report, heading and
\* table frame left out.
DangerousSectionLines ==
  LET at == Ascending({j \in (HeadingIndex(output_str) + 1)..Len(output_str) :
                         IsFunctionLine(output_str[j])})
  IN  IF HeadingIndex(output_str) = 0 THEN <<>>
      ELSE [n \in DOMAIN at |-> output_str[at[n]]]

\* C14: every function listed in the dangerous-function section is shown
\* together with its description, whichever members of dangerous_functions
\* the import table holds.
C14_DangerousFunctionsExplained ==
  Rendered =>
    \A n \in DOMAIN DangerousSectionLines :
      IF output_html THEN DangerousSectionLines[n].text # <<>>
      ELSE DangerousSectionLines[n].tag = "api_explained"
           /\ DangerousSectionLines[n].text # ""

\* main runs once the module body (the catalog literal and the extend_apis
\* loop) has been executed: every state of a run is one after module
\* initialisation.
ModuleInitialised == pc # "import"

\* C15: every library key of dll_api_explanations and every function key of
\* every library's 'apis' mapping equals its own lower-casing.
C15_CatalogKeysLowerCase ==
  ModuleInitialised =>
    \A c \in DOMAIN dll_api_explanations :
      /\ dll_api_explanations[c].key = Lower(dll_api_explanations[c].key)
      /\ \A key \in DOMAIN dll_api_explanations[c].apis : key = Lower(key)

\* C16: the rendered report is a function of the import table, the catalog
\* and the answers: whatever the order in which the set dangerous_found is
\* iterated, the step that renders yields the same report.
C16_ReportDeterministic ==
  [][pc = "render" =>
       \A order \in (IF include_dangerous THEN SetOrders(dangerous_found) ELSE {<<>>}) :
         output_str' = IF output_html
                       THEN generate_html_output(sorted_imports, dll_api_explanations, order)
                       ELSE generate_text_output(sorted_imports, dll_api_explanations, order)]_vars


\* C19: after module initialisation every library of dll_api_explanations has
\* at least 100 entries in its 'apis' mapping.
C19_AtLeast100Apis ==
  ModuleInitialised =>
    \A c \in DOMAIN dll_api_explanations :
      Cardinality(DOMAIN dll_api_explanations[c].apis) >= 100

\* kernel32.dll is written with 52 functions and holds 100 after the pass,
\* placeholder_53 to placeholder_100 among them; advapi32.dll is written with
\* 106 and gets none.
C19_Witness ==
  /\ ModuleInitialised
  /\ dll_api_literal[1].key = <<"k","e","r","n","e","l","3","2",".","d","l","l">>
  /\ Len(dll_api_literal[1].apis) = 52
  /\ Cardinality(DOMAIN dll_api_explanations[1].apis) = 100
  /\ <<"p","l","a","c","e","h","o","l","d","e","r","_","5","3">> \in DOMAIN dll_api_explanations[1].apis
  /\ <<"p","l","a","c","e","h","o","l","d","e","r","_","1","0","0">> \in DOMAIN dll_api_explanations[1].apis
  /\ <<"p","l","a","c","e","h","o","l","d","e","r","_","5","2">> \notin DOMAIN dll_api_explanations[1].apis
  /\ Cardinality(DOMAIN dll_api_explanations[3].apis) = 106

\* ------------------------------------------------------------------ the written file

\* The run came to its end with nothing raised.
RanToTheEnd == pc = "done" /\ raised = NoError

\* A rendering that opens with the literal "<html>" line: only the HTML
\* renderer produces one.
OpensAsHtml(out) ==
  /\ out # <<>>
  /\ out[1].tag = "literal"
  /\ out[1].text = <<"raw", "<html>">>

\* A rendering with no literal markup line at all: the text renderer's.
HasNoMarkup(out) == \A i \in DOMAIN out : out[i].tag # "literal"

\* C17: at no moment is there more than one written file, and a run that
\* came to its end with nothing raised has written exactly one, under the
\* chosen name, holding the HTML rendering of the imports if the format
\* prompt was answered with yes and their plain-text rendering otherwise.
C17_OneFileInChosenFormat ==
  /\ Len(files) <= 1
  /\ RanToTheEnd =>
       /\ Len(files) = 1
       /\ files[1].name = file_name
       /\ LET orders == IF include_dangerous THEN SetOrders(dangerous_found) ELSE {<<>>}
              out == files[1].content
          IN  IF output_html
              THEN /\ OpensAsHtml(out)
                   /\ \E order \in orders :
                        out = generate_html_output(sorted_imports, dll_api_explanations, order)
              ELSE /\ HasNoMarkup(out)
                   /\ \E order \in orders :
                        out = generate_text_output(sorted_imports, dll_api_explanations, order)

C17_Witness ==
  /\ RanToTheEnd
  /\ output_html
  /\ sorted_imports # <<>>
  /\ Len(files) = 1
  /\ OpensAsHtml(files[1].content)

\* ------------------------------------------------------------------ the output file name

Spaces(n) == [i \in 1..n |-> " "]

\* s is t with blanks around it, t having none at either end.
IsTrimOf(t, s) ==
  /\ t # <<>>
  /\ t[1] # " "
  /\ t[Len(t)] # " "
  /\ \E a, b \in 0..Len(s) : s = Spaces(a) \o t \o Spaces(b)

\* b is what follows the last "/" of path.
IsBaseNameOf(b, path) ==
  /\ \A i \in DOMAIN b : b[i] # "/"
  /\ \/ b = path
     \/ \E d \in 1..Len(path) : d + Len(b) = Len(path) /\ path[d] = "/"
                                 /\ b = SubSeq(path, d + 1, Len(path))

\* r is b with its last extension removed: b itself if b has no dot after a
\* character that is not a dot, and otherwise what precedes b's last dot.
IsRootOf(r, b) ==
  IF \E i, j \in DOMAIN b : i < j /\ b[i] # "." /\ b[j] = "."
  THEN \E e \in DOMAIN b :
         /\ b[e] = "."
         /\ \A j \in (e + 1)..Len(b) : b[j] # "."
         /\ r = SubSeq(b, 1, e - 1)
  ELSE r = b

Suffix(html) == IF html THEN <<".", "h", "t", "m", "l">> ELSE <<".", "t", "x", "t">>

\* C18: once the file-name prompt is answered, the file name is, for a line
\* of blanks only or an empty line, the input path's base name without its
\* last extension followed by ".html" if HTML was chosen and ".txt" if not,
\* and for any other line, that line without its surrounding blanks.
C18_FileNameDefaultOrTrimmed ==
  pc = "render" =>
    IF \A i \in DOMAIN typed : typed[i] = " "
    THEN \E b \in {SubSeq(file_path, k, Len(file_path)) : k \in 1..(Len(file_path) + 1)} :
           /\ IsBaseNameOf(b, file_path)
           /\ \E r \in {SubSeq(b, 1, k) : k \in 0..Len(b)} :
                /\ IsRootOf(r, b)
                /\ file_name = r \o Suffix(output_html)
    ELSE IsTrimOf(file_name, typed)

C18_Witness ==
  /\ pc = "render"
  /\ file_path = <<"d", "/", "m", "a", "l", ".", "v", "2", ".", "e", "x", "e">>
  /\ typed = <<" ", " ">>
  /\ output_html
  /\ file_name = <<"m", "a", "l", ".", "v", "2", ".", "h", "t", "m", "l">>

\* ------------------------------------------------------------------ the order of the steps

PromptOrder == <<"dangerous", "html", "file_name">>

\* C20: no prompt is shown while extraction or detection is still to run;
\* once a prompt was shown, extraction has returned and dangerous_found
\* holds every dangerous function of the imports; the prompts shown are a
\* prefix of dangerous, html, file_name; and a rendering or a written file
\* exists only once all three prompts were shown and answered.
C20_StepsInOrder ==
  /\ IsPrefix(asked, PromptOrder)
  /\ pc \in {"extract", "detect"} => asked = <<>>
  /\ asked # <<>> =>
       /\ raised.step # "extract"
       /\ dangerous_found = ImportedDangerous
  /\ (pc \in {"write", "saved"} \/ output_str # <<>> \/ files # <<>>) =>
       /\ asked = PromptOrder
       /\ raised.step # "prompt"

C20_Witness ==
  /\ pc = "done"
  /\ asked = PromptOrder
  /\ dangerous_found # {}
  /\ Len(files) = 1
  /\ files[1].content = output_str

\* ------------------------------------------------------------------ the 20-description limit

\* A function line that carries a description.
IsDescribedLine(line) ==
  IF output_html THEN line.tag = "row" /\ line.text # <<>>
  ELSE line.tag = "api_explained"

\* How many functions of funcs the listing of a library shows: all of them
\* when the catalog mapping apis describes fewer than 20, and otherwise those
\* up to the 20th described one.
ListedCount(funcs, apis) ==
  LET described == [i \in DOMAIN funcs |-> Lower(funcs[i]) \in DOMAIN apis]
      full == {n \in DOMAIN funcs : Cardinality({i \in 1..n : described[i]}) >= 20}
  IN  IF full = {} THEN Len(funcs) ELSE Min(full)

\* C21: in both renderers a library section holds at most 20 lines with a
\* description, and the functions it lists are the library's functions, in
\* their case-insensitive order, up to the 20th function the catalog describes,
\* all of them when the catalog describes fewer than 20.
C21_ListedUpTo20thDescribed ==
  Rendered =>
    /\ SectionsMatchCatalogued
    /\ LET items == CataloguedItems
       IN  \A k \in DOMAIN items :
             LET lines == SectionLines(k)
                 funcs == items[k].functions
                 cut == ListedCount(funcs, ApisOf(items[k]))
             IN  /\ IsSortedByLower(funcs)
                 /\ Cardinality({n \in DOMAIN lines : IsDescribedLine(lines[n])}) <= 20
                 /\ Len(lines) = cut
                 /\ \A n \in DOMAIN lines : lines[n].name = Shown(funcs[n])

\* A section that lists more than 20 functions, 20 of them described, and
\* leaves out the rest of the library's functions.
C21_Witness ==
  /\ Rendered
  /\ Len(CataloguedItems) = 1
  /\ Cardinality(SectionStarts(output_str)) = 1
  /\ LET lines == SectionLines(1)
     IN  /\ Len(lines) > 20
         /\ Len(lines) < Len(CataloguedItems[1].functions)
         /\ Cardinality({n \in DOMAIN lines : IsDescribedLine(lines[n])}) = 20
         /\ IsDescribedLine(lines[Len(lines)])

\* ------------------------------------------------------------------ the two outcomes

\* C22: main prints at most one line; the saved message is printed only with
\* nothing raised and the file written under the name it tells; a run in
\* which a step raised (extraction, a prompt, the write) has printed no saved
\* message; and a finished run has printed exactly one line: the saved
\* message if nothing was raised, and otherwise the error line carrying the
\* message of what was raised.
C22_SavedOrError ==
  /\ Len(stdout) <= 1
  /\ \A i \in DOMAIN stdout :
       /\ stdout[i].tag \in {"saved", "error"}
       /\ stdout[i].tag = "saved" =>
            /\ raised = NoError
            /\ Len(files) = 1
            /\ files[1] = [name |-> stdout[i].name, content |-> output_str]
       /\ stdout[i].tag = "error" =>
            /\ raised # NoError
            /\ stdout[i].text = raised.message
  /\ pc = "done" =>
       /\ Len(stdout) = 1
       /\ stdout[1].tag = (IF raised = NoError THEN "saved" ELSE "error")

\* A run whose file write failed ended with the error line alone.
C22_Witness ==
  /\ pc = "done"
  /\ raised.step = "write"
  /\ files = <<>>
  /\ Len(stdout) = 1
  /\ stdout[1].tag = "error"

\* ------------------------------------------------------------------ text against HTML

\* The character references html.escape writes, each with its character.
Entities ==
  <<<<<<"&","a","m","p",";">>, "&">>,
    <<<<"&","l","t",";">>, "<">>,
    <<<<"&","g","t",";">>, ">">>,
    <<<<"&","q","u","o","t",";">>, "\"">>,
    <<<<"&","#","x","2","7",";">>, "'">>>>

\* What a browser shows for an escaped name.
RECURSIVE Unescaped(_)
Unescaped(s) ==
  IF s = <<>> THEN <<>>
  ELSE LET hits == {e \in DOMAIN Entities : IsPrefix(Entities[e][1], s)}
       IN  IF hits = {} THEN <<s[1]>> \o Unescaped(Tail(s))
           ELSE LET e == CHOOSE h \in hits : TRUE
                IN  <<Entities[e][2]>>
                      \o Unescaped(SubSeq(s, Len(Entities[e][1]) + 1, Len(s)))

\* What a line of a report tells, markup and layout left out: a library, a
\* library's explanation, a function with its description ("" if it has
\* none), or the heading of the dangerous-function section.
ToldBy(line, html) ==
  IF line.tag \in {"dll", "h2"}
  THEN [kind |-> "library", name |-> IF html THEN Unescaped(line.name) ELSE line.name,
        description |-> ""]
  ELSE IF line.tag \in {"dll_explanation", "p_dll_explanation"}
  THEN [kind |-> "library explanation", name |-> <<>>,
        description |-> IF html THEN line.text[2] ELSE line.text]
  ELSE IF line.tag = "dangerous_heading"
  THEN [kind |-> "dangerous heading", name |-> <<>>, description |-> ""]
  ELSE [kind |-> "function", name |-> IF html THEN Unescaped(line.name) ELSE line.name,
        description |-> IF html THEN (IF line.text = <<>> THEN "" ELSE line.text[2])
                        ELSE line.text]

\* The content of a report, in order.
Content(out, html) ==
  LET telling == SelectSeq(out, LAMBDA line : line.tag \notin {"literal", "blank"})
  IN  [i \in DOMAIN telling |-> ToldBy(telling[i], html)]

\* C23: the text and the HTML rendering of the same mapping, catalog and
\* dangerous set (iterated in the same order) tell the same: the same
\* libraries, functions, descriptions and dangerous-section entries, in the
\* same order.
C23_TextAndHtmlTellTheSame ==
  Rendered =>
    \A order \in (IF include_dangerous THEN SetOrders(dangerous_found) ELSE {<<>>}) :
      LET text == generate_text_output(sorted_imports, dll_api_explanations, order)
          html == generate_html_output(sorted_imports, dll_api_explanations, order)
      IN  output_str = (IF output_html THEN html ELSE text)
            => Content(text, FALSE) = Content(html, TRUE)

\* An HTML report with an escaped function name and a dangerous-function
\* section.
C23_Witness ==
  /\ Rendered
  /\ output_html
  /\ HeadingIndex(output_str) # 0
  /\ \E i \in DOMAIN output_str :
       /\ output_str[i].tag = "row"
       /\ output_str[i].name = <<"&","l","t",";","b","&","g","t",";","&","a","m","p",";">>

\* ------------------------------------------------------------------ nothing dropped, nothing invented

\* The entries of the parsed import table filed under a key, each as the pair
\* of its descriptor's and its own position.
EntriesUnder(key) ==
  {p \in UNION {{<<i, k>> : k \in DOMAIN binary.imports[i].entries} :
                  i \in DOMAIN binary.imports} :
     KeyOfDescriptor(binary.imports[p[1]]) = key}

\* f is what the entry at p is to be recorded as: its name, or the
\* placeholder of its ordinal if it has none.
RecordsEntry(f, p) ==
  LET e == binary.imports[p[1]].entries[p[2]]
  IN  IF e.name # <<>> THEN f = e.name ELSE IsPlaceholderOf(f, e.ordinal)

\* C24: every key of the returned mapping is the name of some descriptor
\* (UNKNOWN_DLL for one without a name), every descriptor's name is a key, and
\* the list under a key holds each function exactly as often as the
\* descriptors of that name hold entries recorded as it: the list is a
\* permutation of those entries' names and placeholders.
C24_ListsArePermutations ==
  Returned =>
    /\ \A i \in DOMAIN binary.imports :
         \E m \in DOMAIN sorted_imports :
           sorted_imports[m].dll = KeyOfDescriptor(binary.imports[i])
    /\ \A m \in DOMAIN sorted_imports :
         LET list == sorted_imports[m].functions
             under == EntriesUnder(sorted_imports[m].dll)
         IN  /\ \E i \in DOMAIN binary.imports :
                  KeyOfDescriptor(binary.imports[i]) = sorted_imports[m].dll
             /\ Len(list) = Cardinality(under)
             /\ \A n \in DOMAIN list :
                  Cardinality({j \in DOMAIN list : list[j] = list[n]})
                    = Cardinality({p \in under : RecordsEntry(list[n], p)})

\* Two descriptors without a name, one entry each, returned as one list of
\* two functions under UNKNOWN_DLL.
C24_Witness ==
  /\ Returned
  /\ Len(binary.imports) = 2
  /\ \A i \in 1..2 : binary.imports[i].name = <<>> /\ Len(binary.imports[i].entries) = 1
  /\ binary.imports[1].entries[1].name = <<>>
  /\ binary.imports[2].entries[1].name # <<>>
  /\ Len(sorted_imports) = 1
  /\ sorted_imports[1].dll = UNKNOWN_DLL
  /\ Len(sorted_imports[1].functions) = 2

\* ------------------------------------------------------------------ one section per library

\* C25: no two sections of a report are headed by the same library, library
\* names compared without regard to letter case (the catalog's way), so no
\* catalog explanation appears under two headings.
C25_OneSectionPerLibrary ==
  Rendered =>
    LET starts == SectionStarts(output_str)
        library == [i \in starts |-> Lower(output_str[i].name)]
    IN  \A i, j \in starts : library[i] = library[j] => i = j

\* ------------------------------------------------------------------ the dangerous-function heading

\* A line that closes a library section: the blank line of the text report,
\* the end of the table in the HTML report.
ClosesSection(line) ==
  \/ line.tag = "blank"
  \/ line.tag = "literal" /\ line.text = <<"raw", "</table>">>

\* A report without any part of a dangerous-function section: every function
\* line lies inside a library section, before that section is closed, and the
\* report opens as many tables as it has library sections.
OnlyLibrarySections(out) ==
  LET starts == SectionStarts(out)
  IN  /\ \A j \in DOMAIN out :
           IsFunctionLine(out[j]) =>
             \E i \in starts :
               /\ i < j
               /\ \A n \in i..j : ~ClosesSection(out[n])
      /\ Cardinality({j \in DOMAIN out :
                        out[j].tag = "literal" /\ out[j].text = <<"raw", "<table>">>})
           = (IF output_html THEN Cardinality(starts) ELSE 0)

\* C26: the report holds the heading of the dangerous-function section
\* exactly when the user opted in and some imported function is dangerous,
\* and without the heading it holds nothing else of that section either.
C26_HeadingIffOptInAndDangerous ==
  Rendered =>
    /\ (HeadingIndex(output_str) # 0) <=> (include_dangerous /\ ImportedDangerous # {})
    /\ HeadingIndex(output_str) = 0 => OnlyLibrarySections(output_str)

\* An HTML report of a table with a dangerous import, the user having opted
\* out: a library section, and no dangerous-function heading.
C26_Witness ==
  /\ Rendered
  /\ output_html
  /\ ~include_dangerous
  /\ ImportedDangerous # {}
  /\ SectionStarts(output_str) # {}
  /\ HeadingIndex(output_str) = 0

\* ------------------------------------------------------------------ yes and no

\* A line that is one y, small or capital, with nothing but whitespace
\* around it.
IsTheLetterY(line) ==
  \E a \in DOMAIN line :
    /\ line[a] \in {"y", "Y"}
    /\ \A i \in DOMAIN line \ {a} : line[i] \in {" ", "\t"}

\* C27: the answer to the first prompt sets include_dangerous, and the answer
\* to the second sets output_html, to true exactly when the line typed is the
\* letter y in either case with only whitespace around it; any other line,
\* 'yes' and the empty line among them, sets it to false.
C27_YesExactlyForY ==
  /\ pc = "answered_dangerous" => (include_dangerous <=> IsTheLetterY(typed))
  /\ pc = "answered_html" => (output_html <=> IsTheLetterY(typed))

\* 'Yes' between a tab and a blank, typed at the format prompt, counted as no.
C27_Witness ==
  /\ pc = "answered_html"
  /\ typed = <<"\t", "Y", "e", "s", " ">>
  /\ ~output_html

\* A capital Y between whitespace, typed at the first prompt, counted as yes.
C27_WitnessYes ==
  /\ pc = "answered_dangerous"
  /\ typed = <<" ", "\t", "Y", "\t">>
  /\ include_dangerous

====
